---- MODULE Spec2Model ----
(***************************************************************************)
(* The agent execution loop of the coding agent: Agent.runStream (the      *)
(* streaming generator of agent.ts) and Agent.run (the CLI loop of the     *)
(* earlier agent.ts), with the three file tools and the file system they   *)
(* act on.                                                                 *)
(***************************************************************************)
EXTENDS Integers, Sequences, FiniteSets, TLC

\* ---------------------------------------------------------------- bounds
\* The first MaxFreeCalls tool calls a model issues in one execution have any
\* of the shapes of ToolCallShapes, in batches of any size; once they are
\* used up the model's responses are drawn from TailResponses.
MaxFreeCalls == 2

\* ------------------------------------------------------ program constants
maxTurns == 15

\* `const batchSize = 50` of indexCodebase.
batchSize == 50

\* The largest number of chunks the indexer generates.
MaxChunks == 101

\* The largest number of chunks of a loaded index.
MaxIndex == 3

\* `k: number = 5` of retrieveContext.
DefaultK == 5

\* ------------------------------------------------------------- sentinels
\* JavaScript's undefined / null, as a value of a string-typed slot.
Undefined == "<undefined>"
\* A null or undefined argument payload (toolCall.args).
NoArgs == [path |-> "<null>", content |-> "<null>"]

\* ------------------------------------------------------------ file system
F == "d/b.txt"
D == "d"
\* A second directory and file, for a second execution.
G == "e/c.txt"
E == "e"
Paths == {D, F, E, G}

Absent == [kind |-> "absent", content |-> ""]
Dir == [kind |-> "dir", content |-> ""]
File(c) == [kind |-> "file", content |-> c]

\* path.dirname
dirname(p) == IF p = F THEN D ELSE IF p = G THEN E ELSE "."

\* fs.existsSync: false for anything that is not an existing path, a
\* non-string argument included.
existsSync(fsys, p) == IF p \in Paths THEN fsys[p].kind # "absent" ELSE p = "."

isDirectory(fsys, p) == IF p \in Paths THEN fsys[p].kind = "dir" ELSE p = "."

\* ------------------------------------------------------------------ tools
\* The outcome of a handler: the string it resolves to (or the rejection of
\* its promise) and the file system it leaves behind.
Returned(s, fsys) == [thrown |-> FALSE, value |-> s, fs |-> fsys]
Rejected(s, fsys) == [thrown |-> TRUE, value |-> s, fs |-> fsys]

DestructureError == "TypeError: Cannot destructure property 'path'"

read_file(args, fsys) ==
    IF args = NoArgs THEN Rejected(DestructureError, fsys)
    ELSE IF ~existsSync(fsys, args.path)
         THEN Returned("File not found: " \o args.path, fsys)
    ELSE IF isDirectory(fsys, args.path)
         THEN Returned("Error reading file: EISDIR", fsys)
    ELSE Returned(fsys[args.path].content, fsys)

\* Mutant of write_file: the missing directory is not created, so that
\* writeFileSync fails with ENOENT.
write_file_NoMkdir(args, fsys) ==
    IF args = NoArgs THEN Rejected(DestructureError, fsys)
    ELSE IF args.path = Undefined
         THEN Returned("Error writing file: ERR_INVALID_ARG_TYPE", fsys)
    ELSE LET dir == dirname(args.path) IN
         IF ~existsSync(fsys, dir)
         THEN Returned("Error writing file: ENOENT", fsys)
         ELSE IF ~isDirectory(fsys, dir)
         THEN Returned("Error writing file: ENOTDIR", fsys)
         ELSE IF args.content = Undefined
         THEN Returned("Error writing file: ERR_INVALID_ARG_TYPE", fsys)
         ELSE IF isDirectory(fsys, args.path)
         THEN Returned("Error writing file: EISDIR", fsys)
         ELSE Returned("Successfully wrote to " \o args.path,
                       [fsys EXCEPT ![args.path] = File(args.content)])

write_file(args, fsys) ==
    IF args = NoArgs THEN Rejected(DestructureError, fsys)
    ELSE IF args.path = Undefined
         THEN Returned("Error writing file: ERR_INVALID_ARG_TYPE", fsys)
    ELSE LET dir == dirname(args.path)
             \* fs.mkdirSync(dir, {recursive: true}) when dir does not exist
             made == IF ~existsSync(fsys, dir) /\ dir \in Paths
                     THEN [fsys EXCEPT ![dir] = Dir] ELSE fsys
         IN  IF ~isDirectory(made, dir)
             THEN Returned("Error writing file: ENOTDIR", made)
             ELSE IF args.content = Undefined
             THEN Returned("Error writing file: ERR_INVALID_ARG_TYPE", made)
             ELSE IF isDirectory(made, args.path)
             THEN Returned("Error writing file: EISDIR", made)
             ELSE Returned("Successfully wrote to " \o args.path,
                           [made EXCEPT ![args.path] = File(args.content)])

list_files(args, fsys) ==
    IF args = NoArgs THEN Rejected(DestructureError, fsys)
    ELSE IF ~existsSync(fsys, args.path)
         THEN Returned("Directory not found: " \o args.path, fsys)
    ELSE IF ~isDirectory(fsys, args.path)
         THEN Returned("Error listing files: ENOTDIR", fsys)
    ELSE Returned(IF args.path = D /\ fsys[F].kind # "absent" THEN "b.txt"
                  ELSE IF args.path = E /\ fsys[G].kind # "absent" THEN "c.txt"
                  ELSE IF args.path = "."
                  THEN (IF fsys[D].kind # "absent" /\ fsys[E].kind # "absent"
                        THEN "d\ne"
                        ELSE IF fsys[D].kind # "absent" THEN "d"
                        ELSE IF fsys[E].kind # "absent" THEN "e" ELSE "")
                  ELSE "", fsys)

\* schema: z.object({path: z.string()}) for read_file and list_files,
\* z.object({path: z.string(), content: z.string()}) for write_file.
schemaAccepts(name, args) ==
    /\ args # NoArgs
    /\ args.path # Undefined
    /\ name = "write_file" => args.content # Undefined

\* The names of the tools array, in its order.
tools == <<"read_file", "write_file", "list_files">>

ToolNames == {tools[k] : k \in 1..Len(tools)}

\* tools.find(t => t.name === toolCall.name)
findTool(name) == name \in ToolNames

\* tool.func(toolCall.args)
func(name, args, fsys) ==
    CASE name = "read_file" -> read_file(args, fsys)
      [] name = "write_file" -> write_file(args, fsys)
      [] name = "list_files" -> list_files(args, fsys)

\* --------------------------------------------------------------- messages
SystemPrompt == "You are a skilled software engineer agent. Codebase Context:\n"

SystemMessage(context) ==
    [type |-> "system", content |-> SystemPrompt \o context \o "\n"]
HumanMessage(q) == [type |-> "human", content |-> q]
ToolMessage(id, c) == [type |-> "tool", tool_call_id |-> id, content |-> c]

\* Mutant of push: the message is put in front (unshift) instead of at the end.
push_Unshift(msgs, m) == <<m>> \o msgs

\* currentMessages.push(m)
push(msgs, m) == Append(msgs, m)

\* toolCall.id || "unknown": a missing id and the empty string are falsy.
toolCallId(tc) == IF tc.id = Undefined \/ tc.id = "" THEN "unknown" ELSE tc.id

\* ----------------------------------------------------------------- events
ToolStartEvent(tcs) ==
    [type |-> "tool_start", tools |-> [k \in 1..Len(tcs) |-> tcs[k].name]]
\* Mutant of ToolResultEvent: the record is built before the result is known.
ToolResultEvent_NoResult(name, r) ==
    [type |-> "tool_result", tool |-> name, result |-> Undefined]

ToolResultEvent(name, r) == [type |-> "tool_result", tool |-> name, result |-> r]
MessageEvent(c) == [type |-> "message", content |-> c]
ErrorEvent(m) == [type |-> "error", content |-> m]


\* ------------------------------------------------------ the model's inputs
\* The shapes of tool call a model response may carry: a registered tool
\* with well-formed arguments, an unregistered name (with and without id),
\* a null payload, a missing field.
ToolCallShapes ==
    { [name |-> "read_file", args |-> [path |-> F, content |-> Undefined], hasId |-> TRUE],
      [name |-> "write_file", args |-> [path |-> F, content |-> "x"], hasId |-> TRUE],
      [name |-> "list_files", args |-> [path |-> D, content |-> Undefined], hasId |-> TRUE],
      [name |-> "run_shell", args |-> [path |-> F, content |-> Undefined], hasId |-> TRUE],
      [name |-> "read_file", args |-> NoArgs, hasId |-> TRUE],
      [name |-> "write_file", args |-> [path |-> F, content |-> Undefined], hasId |-> TRUE],
      [name |-> "run_shell", args |-> [path |-> F, content |-> Undefined], hasId |-> FALSE] }

TailShape ==
    [name |-> "read_file", args |-> [path |-> F, content |-> Undefined], hasId |-> TRUE]

\* The tool call at position k of a response: the model issues the id.
ToolCall(shape, k) ==
    [name |-> shape.name, args |-> shape.args,
     id |-> IF shape.hasId THEN "call_" \o ToString(k) ELSE Undefined]

\* The batches of at most max tool calls.
Batches(shapes, max) ==
    UNION { { [k \in 1..n |-> ToolCall(b[k], k)] : b \in [1..n -> shapes] }
            : n \in 1..max }

Answers == {"The function is in utils.ts", "Found it"}

\* An AIMessage: tool_calls may be absent, empty or non-empty.
AIMessage(c, tcs, defined) ==
    [type |-> "ai", content |-> c, tool_calls |-> tcs, tool_calls_defined |-> defined]

FreeResponses(max) ==
    { AIMessage("", b, TRUE) : b \in Batches(ToolCallShapes, max) }
    \cup { AIMessage(a, <<>>, d) : a \in Answers, d \in BOOLEAN }

TailResponses ==
    { AIMessage("", <<ToolCall(TailShape, 1)>>, TRUE), AIMessage("Found it", <<>>, TRUE) }

\* The number of tool calls issued in the transcript msgs.
RECURSIVE CallsIssued(_)
CallsIssued(msgs) ==
    IF msgs = <<>> THEN 0
    ELSE (IF Head(msgs).type = "ai" THEN Len(Head(msgs).tool_calls) ELSE 0)
         + CallsIssued(Tail(msgs))

\* A response whose tool call carries a null payload.
NullArgsResponse ==
    AIMessage("", <<ToolCall([name |-> "read_file", args |-> NoArgs, hasId |-> TRUE], 1)>>, TRUE)

\* The responses the model may give to the transcript msgs: freely shaped
\* ones for the first `free` tool calls, then the tail responses and, for a
\* model that shapes calls freely at all, the null payload.
Responses(msgs, free) ==
    IF CallsIssued(msgs) < free
    THEN FreeResponses(free - CallsIssued(msgs))
    ELSE IF free = 0 THEN TailResponses
    ELSE TailResponses \cup {NullArgsResponse}

\* The messages of the errors a model invocation rejects with.
Failures == {"fetch failed"}

Queries == {"where is f?"}

\* Mutant of hasToolCalls: the length test is dropped, so an empty tool_calls
\* array counts as a batch.
hasToolCalls_NoLengthCheck(r) == r.tool_calls_defined

\* response.tool_calls && response.tool_calls.length > 0
hasToolCalls(r) == r.tool_calls_defined /\ Len(r.tool_calls) > 0

\* --------------------------------------------------------------- retrieval
\* A chunk without embedding carries NoVector (the indexes of the model hold
\* no zero-length vector).
NoVector == <<>>

\* The vectors of the model: all of one dimension.
Vectors == { <<1, 0>>, <<0, 1>>, <<1, 1>> }
QueryVectors == { <<1, 0>>, <<1, 2>>, <<0, 0>> }

\* Mutant of sumOver: normB sums the components of vecB, not their squares.
RECURSIVE sumOver_NormBNotSquared(_, _, _)
sumOver_NormBNotSquared(vecA, vecB, n) ==
    IF n = 0 THEN [dotProduct |-> 0, normA |-> 0, normB |-> 0]
    ELSE LET s == sumOver_NormBNotSquared(vecA, vecB, n - 1) IN
         [dotProduct |-> s.dotProduct + vecA[n] * vecB[n],
          normA |-> s.normA + vecA[n] * vecA[n],
          normB |-> s.normB + vecB[n]]

\* The loop of cosineSimilarity: the sums over i < vecA.length.
RECURSIVE sumOver(_, _, _)
sumOver(vecA, vecB, n) ==
    IF n = 0 THEN [dotProduct |-> 0, normA |-> 0, normB |-> 0]
    ELSE LET s == sumOver(vecA, vecB, n - 1) IN
         [dotProduct |-> s.dotProduct + vecA[n] * vecB[n],
          normA |-> s.normA + vecA[n] * vecA[n],
          normB |-> s.normB + vecB[n] * vecB[n]]

\* A score is kept exactly, as the fraction num/den (den > 0) of its signed
\* square x * |x|, which orders scores as the scores themselves.
Score(num, den) == [num |-> num, den |-> den]

\* Mutant of cosineSimilarity: no test of the norms before the division
\* (0 / 0 for a zero vector).
cosineSimilarity_NoZeroGuard(vecA, vecB) ==
    LET s == sumOver(vecA, vecB, Len(vecA)) IN
    Score(s.dotProduct * (IF s.dotProduct < 0 THEN -s.dotProduct ELSE s.dotProduct),
          s.normA * s.normB)

\* cosineSimilarity: 0 when a norm is 0, else dotProduct / (sqrt(normA) *
\* sqrt(normB)), whose signed square is kept.
cosineSimilarity(vecA, vecB) ==
    LET s == sumOver(vecA, vecB, Len(vecA)) IN
    IF s.normA = 0 \/ s.normB = 0 THEN Score(0, 1)
    ELSE Score(s.dotProduct * (IF s.dotProduct < 0 THEN -s.dotProduct ELSE s.dotProduct),
               s.normA * s.normB)

Greater(a, b) == a.num * b.den > b.num * a.den
SameScore(a, b) == a.num * b.den = b.num * a.den

\* score: chunk.embedding ? cosineSimilarity(queryEmbedding, chunk.embedding) : -1
scoreOf(chunk, qe) ==
    IF chunk.embedding # NoVector
    THEN cosineSimilarity(qe, chunk.embedding)
    ELSE Score(-1, 1)

\* Mutant of sortByScore: the comparator is a.score - b.score.
sortByScore_Ascending(scores) ==
    LET n == Len(scores)
        rank(j) == 1 + Cardinality({ l \in 1..n : Greater(scores[j], scores[l]) })
                     + Cardinality({ l \in 1..(j-1) : SameScore(scores[l], scores[j]) })
    IN  [r \in 1..n |-> CHOOSE j \in 1..n : rank(j) = r]

\* scored.sort((a, b) => b.score - a.score): Array.prototype.sort is stable,
\* so the result is the one order of the positions that is descending in
\* score and keeps equal scores in index order.
sortByScore(scores) ==
    LET n == Len(scores)
        rank(j) == 1 + Cardinality({ l \in 1..n : Greater(scores[l], scores[j]) })
                     + Cardinality({ l \in 1..(j-1) : SameScore(scores[l], scores[j]) })
    IN  [r \in 1..n |-> CHOOSE j \in 1..n : rank(j) = r]

\* `File: ${s.chunk.path}\nContent:\n${s.chunk.content}\n`
chunkText(chunk) == "File: " \o chunk.path \o "\nContent:\n" \o chunk.content \o "\n"

\* Array.prototype.join
RECURSIVE join(_, _)
join(strs, sep) ==
    IF Len(strs) = 0 THEN ""
    ELSE IF Len(strs) = 1 THEN strs[1]
    ELSE strs[1] \o sep \o join(Tail(strs), sep)

\* The body of the try block of retrieveContext after embedQuery resolved:
\* score, sort, slice(0, k), map, join.
topK(idx, qe, kk) ==
    LET scores == [j \in 1..Len(idx) |-> scoreOf(idx[j], qe)]
        sorted == sortByScore(scores)
        m == IF kk < Len(idx) THEN kk ELSE Len(idx)
    IN  join([r \in 1..m |-> chunkText(idx[sorted[r]])], "\n---\n")

\* Mutant of skipsRetrieval: the test of this.index[0].embedding is missing.
skipsRetrieval_NoVectorTest(idx, emb) ==
    Len(idx) = 0 \/ emb = "null"

\* The two guards of retrieveContext that return "" before embedQuery.
skipsRetrieval(idx, emb) ==
    \/ Len(idx) = 0 \/ emb = "null"
    \/ idx[1].embedding = NoVector

\* The indexes an agent may have loaded: every chunk with or without vector.
Indexes ==
    UNION { { [j \in 1..n |-> [path |-> "src/f" \o ToString(j) \o ".ts",
                               content |-> "c" \o ToString(j),
                               embedding |-> e[j]]]
              : e \in [1..n -> Vectors \cup {NoVector}] }
            : n \in 0..MaxIndex }

\* The counts retrieveContext is called with directly.
Ks == {0, 1, 2, DefaultK}

\* The prior transcripts runStream is called with.
Histories ==
    { <<>>,
      <<HumanMessage("hello"), AIMessage("Hi! Ask me about the code.", <<>>, TRUE)>> }

NotEmbedded == [state |-> "none", vector |-> NoVector]

\* ------------------------------------------------------------------ state
VARIABLES
    entry,            \* which loop runs: "runStream" or "run" (the CLI loop)
    pc,               \* the loop's position
    turns,
    currentMessages,  \* the transcript (messages in Agent.run)
    toolCalls,        \* response.tool_calls of the batch being dispatched
    i,                \* position of toolCall in the for loop
    pending,          \* the settled outcome of the awaited tool.func promise
    fs,               \* the file system the tools act on
    events,           \* the records yielded so far
    \* history of the execution, read by the properties only
    invocations,      \* number of modelWithTools.invoke calls
    lastArg,          \* the transcript passed to the latest invoke
    responses,        \* the responses the model has returned
    execLog,          \* starts and ends of tool executions
    \* indexCodebase
    ipc,              \* the indexer's position
    chunks,           \* the chunks array
    embeddings_arg,   \* the embeddings parameter: "given" or Undefined
    OPENAI_API_KEY,   \* whether process.env.OPENAI_API_KEY is set
    batch_i,          \* `i` of the batch loop
    outputFile,       \* the index file: whether it exists, and its content
    \* the Agent and retrieveContext
    index,            \* this.index
    embeddings,       \* this.embeddings: "configured" or "null"
    k_arg,            \* the parameter k of retrieveContext
    queryEmbedding,   \* the outcome of embedQuery
    context,          \* what retrieveContext returned
    freeCalls,        \* how many tool calls the model shapes freely
    \* concurrent executions of runStream
    runs,             \* the locals of each execution, its transcript excepted
    transcripts,      \* the currentMessages array of each execution
    agentOf,          \* the Agent each execution was started on
    \* the rest of the program's state
    messageHistory,   \* the parameter messageHistory of runStream
    indexFile,        \* the file at the agent's indexPath: exists, text
    indexKind,        \* what kind of value this.index holds
    provider,         \* currentConfig.provider
    currentAgent,     \* the server's currentAgent: "null" or "constructed"
    handler,          \* where the program outside the agent is
    written,          \* the chunks written to the response of /api/chat (res)
    \* functions applied on their own
    vecA, vecB,       \* the arguments of cosineSimilarity
    similarity,       \* its results for (vecA, vecB) and (vecB, vecA)
    toolLog,          \* the handler invocations made on fs, with their results
    \* GET /api/files
    rawPath,          \* req.query.path of the latest request
    filesResponse,    \* the response sent to it
    \* SimpleTextSplitter.splitText
    text,             \* the parameter text, as the sequence of its characters
    chunkSize,
    chunkOverlap,
    startIndex,
    splitChunks,      \* the local array chunks: each chunk with where it starts
    splitPc,          \* "call", "loop" or "returned"
    \* the UI's sendMessage
    messages,         \* the state `messages`
    isLoading,        \* the state `isLoading`
    incoming,         \* the records of the response still to be read
    uiPc,             \* where sendMessage is
    \* the server's requests other than one chat
    configFile,       \* the file at CONFIG_PATH: exists, provider
    agentConfig,      \* this.config of currentAgent
    agentIndex,       \* this.index of currentAgent: kind, items
    thisConfig,       \* this.config of the agent whose runStream is running
    lastResponse,     \* the latest /api/config or /api/index response: request, status
    indexing,         \* a POST /api/index is awaiting indexCodebase
    requests,         \* how many requests have been made
    \* the consumer of runStream
    consuming         \* whether the consumer still requests records

agentVars == <<entry, pc, turns, currentMessages, toolCalls, i, pending, fs,
               events, invocations, lastArg, responses, execLog>>

indexerVars == <<ipc, chunks, embeddings_arg, OPENAI_API_KEY, batch_i, outputFile>>

retrievalVars == <<index, embeddings, k_arg, queryEmbedding, context>>

concurrentVars == <<runs, transcripts, agentOf>>

filesVars == <<rawPath, filesResponse>>

\* The state of the parts of the program that are modelled on their own.
splitVars == <<text, chunkSize, chunkOverlap, startIndex, splitChunks, splitPc>>

uiVars == <<messages, isLoading, incoming, uiPc>>

srvVars == <<configFile, agentConfig, agentIndex, thisConfig, lastResponse, indexing,
             requests>>

\* What of the server's other requests a chat leaves alone.
srvRequestVars == <<configFile, lastResponse, indexing, requests>>

\* The later state a chat leaves alone.
notChatVars == <<filesVars, splitVars, uiVars, consuming, srvRequestVars>>

laterVars == <<filesVars, splitVars, uiVars, srvVars, consuming>>

restVars == <<laterVars, messageHistory, indexFile, indexKind, provider, currentAgent,
              handler, written, vecA, vecB, similarity, toolLog>>

\* All of the state but laterVars.
mainVars == <<agentVars, indexerVars, retrievalVars, freeCalls, concurrentVars,
              messageHistory, indexFile, indexKind, provider, currentAgent,
              handler, written, vecA, vecB, similarity, toolLog>>

\* What the steps of the agent's loop leave alone.
otherVars == <<indexerVars, retrievalVars, freeCalls, concurrentVars, restVars>>

vars == <<agentVars, indexerVars, retrievalVars, freeCalls, concurrentVars, restVars>>

NoPending == [thrown |-> FALSE, value |-> ""]

NoFile == [exists |-> FALSE, content |-> <<>>]

\* No concurrent executions.
NoExecutions ==
    /\ runs = <<>>
    /\ transcripts = <<>>
    /\ agentOf = <<>>

\* runStream is called without a prior transcript (as /api/chat calls it).
NoHistory == messageHistory = <<>>

NoIndexFile == [exists |-> FALSE, text |-> ""]

\* An agent has been constructed (this.index is a list) and runStream is
\* consumed by a caller other than the server.
AgentConstructed ==
    /\ indexFile = NoIndexFile
    /\ indexKind = "list"
    /\ provider = "openai"
    /\ currentAgent = "constructed"
    /\ handler = "none"
    /\ written = <<>>

NotComputed == [done |-> FALSE, ab |-> Score(0, 1), ba |-> Score(0, 1)]

\* No function is being applied on its own.
NoApplication ==
    /\ vecA = <<>>
    /\ vecB = <<>>
    /\ similarity = NotComputed
    /\ toolLog = <<>>

NoRawPath == [given |-> FALSE, absolute |-> FALSE, segments |-> <<>>]
NoFilesResponse == [status |-> 0, files |-> {}, currentPath |-> <<>>]

\* No request to /api/files has been made.
FilesIdle ==
    /\ rawPath = NoRawPath
    /\ filesResponse = NoFilesResponse

\* splitText is not being called.
SplitIdle ==
    /\ text = <<>>
    /\ chunkSize = 1000
    /\ chunkOverlap = 200
    /\ startIndex = 0
    /\ splitChunks = <<>>
    /\ splitPc = "idle"

\* The UI is not sending a message.
UiIdle ==
    /\ messages = <<>>
    /\ isLoading = FALSE
    /\ incoming = <<>>
    /\ uiPc = "idle"

NoConfigFile == [exists |-> FALSE, provider |-> ""]
NoAgentIndex == [kind |-> "list", items |-> <<>>]
NoResponse == [request |-> "", status |-> 0]

\* The server handles no request other than one chat.
SrvIdle ==
    /\ configFile = NoConfigFile
    /\ agentConfig = "openai"
    /\ agentIndex = NoAgentIndex
    /\ thisConfig = "openai"
    /\ lastResponse = NoResponse
    /\ indexing = FALSE
    /\ requests = 0

LaterIdle == FilesIdle /\ SplitIdle /\ UiIdle /\ SrvIdle /\ consuming = TRUE

\* The state outside the agent, its index and the indexer.
RestIdle == NoHistory /\ AgentConstructed /\ NoApplication /\ LaterIdle

\* No indexer is running.
IndexerIdle ==
    /\ ipc = "idle"
    /\ chunks = <<>>
    /\ embeddings_arg = Undefined
    /\ OPENAI_API_KEY = FALSE
    /\ batch_i = 0
    /\ outputFile = NoFile

\* The agent was constructed without an index file and retrieveContext has
\* returned the empty context.
NoIndex ==
    /\ index = <<>>
    /\ embeddings = "configured"
    /\ k_arg = DefaultK
    /\ queryEmbedding = NotEmbedded
    /\ context = ""

Init ==
    /\ IndexerIdle
    /\ NoExecutions
    /\ NoIndex
    /\ RestIdle
    /\ freeCalls = MaxFreeCalls
    /\ entry \in {"runStream", "run"}
    /\ pc = "start"
    /\ turns = 0
    /\ currentMessages = <<>>
    /\ toolCalls = <<>>
    /\ i = 0
    /\ pending = NoPending
    /\ fs = [p \in Paths |-> Absent]
    /\ events = <<>>
    /\ invocations = 0
    /\ lastArg = <<>>
    /\ responses = <<>>
    /\ execLog = <<>>


\* ---------------------------------------------------------- shared steps
\* Mutant of nextToolCall: the for loop is left after its first pass.
nextToolCall_Break ==
    /\ i' = i
    /\ pc' = "loop"
    /\ turns' = turns + 1

\* The end of one pass of `for (const toolCall of response.tool_calls)`:
\* the next call of the batch, or past the last one `turns++` and back to
\* the while condition.
nextToolCall ==
    IF i < Len(toolCalls)
    THEN /\ i' = i + 1
         /\ pc' = "dispatch"
         /\ turns' = turns
    ELSE /\ i' = i
         /\ pc' = "loop"
         /\ turns' = turns + 1

\* Mutant of dispatchToolCall: the handler's promise is not awaited before
\* the for loop goes on (the calls of a batch run concurrently).
dispatchToolCall_NoAwait ==
    LET toolCall == toolCalls[i] IN
    IF findTool(toolCall.name)
    THEN LET outcome == func(toolCall.name, toolCall.args, fs) IN
         /\ fs' = outcome.fs
         /\ pending' = [thrown |-> outcome.thrown, value |-> outcome.value]
         /\ execLog' = Append(execLog, <<"start", invocations, i>>)
         /\ currentMessages' = currentMessages
         /\ nextToolCall
    ELSE /\ currentMessages' =
               push(currentMessages,
                    ToolMessage(toolCallId(toolCall), "Error: Tool not found"))
         /\ nextToolCall
         /\ UNCHANGED <<fs, pending, execLog>>

\* `const tool = tools.find(...)` and, for a registered tool, the call
\* tool.func(toolCall.args): the handler's body runs (its file operations
\* are synchronous) and the loop awaits the promise it returns.  For an
\* unregistered name the "Error: Tool not found" message is pushed.
dispatchToolCall ==
    LET toolCall == toolCalls[i] IN
    IF findTool(toolCall.name)
    THEN LET outcome == func(toolCall.name, toolCall.args, fs) IN
         /\ fs' = outcome.fs
         /\ pending' = [thrown |-> outcome.thrown, value |-> outcome.value]
         /\ execLog' = Append(execLog, <<"start", invocations, i>>)
         /\ pc' = "awaitTool"
         /\ UNCHANGED <<currentMessages, i, turns>>
    ELSE /\ currentMessages' =
               push(currentMessages,
                    ToolMessage(toolCallId(toolCall), "Error: Tool not found"))
         /\ nextToolCall
         /\ UNCHANGED <<fs, pending, execLog>>

\* ------------------------------------------------------ Agent.runStream
\* Mutant of Start: the prior transcript is placed before the system message.
Start_HistoryFirst ==
    /\ pc = "start"
    /\ entry = "runStream"
    /\ \E query \in Queries :
         currentMessages' =
             messageHistory \o <<SystemMessage(context), HumanMessage(query)>>
    /\ pc' = "loop"
    /\ UNCHANGED <<entry, turns, toolCalls, i, pending, fs, events,
                   invocations, lastArg, responses, execLog>>
    /\ UNCHANGED otherVars

\* retrieveContext has returned (the agent was constructed without an index
\* file: empty context); the initial messages are built.
Start ==
    /\ pc = "start"
    /\ entry = "runStream"
    /\ \E query \in Queries :
         currentMessages' =
             <<SystemMessage(context)>> \o messageHistory \o <<HumanMessage(query)>>
    /\ pc' = "loop"
    /\ UNCHANGED <<entry, turns, toolCalls, i, pending, fs, events,
                   invocations, lastArg, responses, execLog>>
    /\ UNCHANGED otherVars

\* Mutant of InvokeModel: the while condition is off by one (turns <= maxTurns).
InvokeModel_OffByOne ==
    /\ pc = "loop"
    /\ entry = "runStream"
    /\ turns <= maxTurns
    /\ invocations' = invocations + 1
    /\ lastArg' = currentMessages
    /\ pc' = "awaitModel"
    /\ UNCHANGED <<entry, turns, currentMessages, toolCalls, i, pending, fs,
                   events, responses, execLog>>
    /\ UNCHANGED otherVars

\* while (turns < maxTurns) { ... await modelWithTools.invoke(currentMessages)
InvokeModel ==
    /\ pc = "loop"
    /\ entry = "runStream"
    /\ turns < maxTurns
    /\ invocations' = invocations + 1
    /\ lastArg' = currentMessages
    /\ pc' = "awaitModel"
    /\ UNCHANGED <<entry, turns, currentMessages, toolCalls, i, pending, fs,
                   events, responses, execLog>>
    /\ UNCHANGED otherVars

\* Mutant of LoopExit: the loop is not left when the budget is used up, and
\* the generator never returns.
LoopExit_Hangs ==
    /\ pc = "loop"
    /\ entry = "runStream"
    /\ turns > maxTurns
    /\ pc' = "done"
    /\ UNCHANGED <<entry, turns, currentMessages, toolCalls, i, pending, fs,
                   events, invocations, lastArg, responses, execLog>>
    /\ UNCHANGED otherVars

\* The while condition fails: the generator returns.
LoopExit ==
    /\ pc = "loop"
    /\ entry = "runStream"
    /\ ~(turns < maxTurns)
    /\ pc' = "done"
    /\ UNCHANGED <<entry, turns, currentMessages, toolCalls, i, pending, fs,
                   events, invocations, lastArg, responses, execLog>>
    /\ UNCHANGED otherVars

\* The invocation resolves: the response is pushed, and the generator runs
\* to its next yield (tool_start or message).
ModelResponds ==
    /\ pc = "awaitModel"
    /\ entry = "runStream"
    /\ \E response \in Responses(currentMessages, freeCalls) :
         /\ currentMessages' = push(currentMessages, response)
         /\ responses' = Append(responses, response)
         /\ IF hasToolCalls(response)
            THEN /\ events' = Append(events, ToolStartEvent(response.tool_calls))
                 /\ toolCalls' = response.tool_calls
                 /\ pc' = "yieldStart"
            ELSE /\ events' = Append(events, MessageEvent(response.content))
                 /\ toolCalls' = toolCalls
                 /\ pc' = "yieldMessage"
    /\ UNCHANGED <<entry, turns, i, pending, fs, invocations, lastArg, execLog>>
    /\ UNCHANGED otherVars

\* The invocation rejects: catch (e) yields the error event.
ModelFails ==
    /\ pc = "awaitModel"
    /\ entry = "runStream"
    /\ \E message \in Failures :
         events' = Append(events, ErrorEvent(message))
    /\ pc' = "yieldError"
    /\ UNCHANGED <<entry, turns, currentMessages, toolCalls, i, pending, fs,
                   invocations, lastArg, responses, execLog>>
    /\ UNCHANGED otherVars

\* The consumer requests the next record after tool_start: the for loop
\* is entered.
ResumeAfterToolStart ==
    /\ pc = "yieldStart"
    /\ i' = 1
    /\ pc' = "dispatch"
    /\ UNCHANGED <<entry, turns, currentMessages, toolCalls, pending, fs,
                   events, invocations, lastArg, responses, execLog>>
    /\ UNCHANGED otherVars

Dispatch ==
    /\ pc = "dispatch"
    /\ entry = "runStream"
    /\ dispatchToolCall
    /\ UNCHANGED <<entry, toolCalls, events, invocations, lastArg, responses>>
    /\ UNCHANGED otherVars

\* Mutant of ToolSettles: the tool_result record is buffered and the loop
\* goes on without suspending.
ToolSettles_NoSuspend ==
    /\ pc = "awaitTool"
    /\ entry = "runStream"
    /\ execLog' = Append(execLog, <<"end", invocations, i>>)
    /\ IF pending.thrown
       THEN /\ events' = Append(events, ErrorEvent(pending.value))
            /\ pc' = "yieldError"
            /\ UNCHANGED <<turns, currentMessages, i>>
       ELSE /\ events' = Append(events, ToolResultEvent(toolCalls[i].name, pending.value))
            /\ currentMessages' =
                  push(currentMessages, ToolMessage(toolCallId(toolCalls[i]), pending.value))
            /\ nextToolCall
    /\ UNCHANGED <<entry, toolCalls, pending, fs, invocations, lastArg, responses>>
    /\ UNCHANGED otherVars

\* The awaited tool promise settles: the tool_result record is yielded, or
\* the rejection is caught by the loop's catch, which yields the error.
ToolSettles ==
    /\ pc = "awaitTool"
    /\ entry = "runStream"
    /\ execLog' = Append(execLog, <<"end", invocations, i>>)
    /\ IF pending.thrown
       THEN /\ events' = Append(events, ErrorEvent(pending.value))
            /\ pc' = "yieldError"
       ELSE /\ events' = Append(events, ToolResultEvent(toolCalls[i].name, pending.value))
            /\ pc' = "yieldResult"
    /\ UNCHANGED <<entry, turns, currentMessages, toolCalls, i, pending, fs,
                   invocations, lastArg, responses>>
    /\ UNCHANGED otherVars

\* The consumer requests the next record after tool_result: the tool
\* message is pushed and the for loop goes on.
ResumeAfterToolResult ==
    /\ pc = "yieldResult"
    /\ currentMessages' =
          push(currentMessages, ToolMessage(toolCallId(toolCalls[i]), pending.value))
    /\ nextToolCall
    /\ UNCHANGED <<entry, toolCalls, pending, fs, events, invocations, lastArg,
                   responses, execLog>>
    /\ UNCHANGED otherVars

\* Mutant of ResumeAfterTerminal: the break after the error record is
\* missing, so the loop goes on to turns++ and the next invocation.
ResumeAfterTerminal_NoBreak ==
    /\ pc \in {"yieldMessage", "yieldError"}
    /\ IF pc = "yieldError"
       THEN pc' = "loop" /\ turns' = turns + 1
       ELSE pc' = "done" /\ turns' = turns
    /\ UNCHANGED <<entry, currentMessages, toolCalls, i, pending, fs,
                   events, invocations, lastArg, responses, execLog>>
    /\ UNCHANGED otherVars

\* The consumer requests the next record after message or error: break,
\* and the generator returns.
ResumeAfterTerminal ==
    /\ pc \in {"yieldMessage", "yieldError"}
    /\ pc' = "done"
    /\ UNCHANGED <<entry, turns, currentMessages, toolCalls, i, pending, fs,
                   events, invocations, lastArg, responses, execLog>>
    /\ UNCHANGED otherVars

\* ------------------------------------------------- Agent.run (CLI loop)
RunStart ==
    /\ pc = "start"
    /\ entry = "run"
    /\ \E query \in Queries :
         currentMessages' = <<SystemMessage(context), HumanMessage(query)>>
    /\ pc' = "loop"
    /\ UNCHANGED <<entry, turns, toolCalls, i, pending, fs, events,
                   invocations, lastArg, responses, execLog>>
    /\ UNCHANGED otherVars

RunInvokeModel ==
    /\ pc = "loop"
    /\ entry = "run"
    /\ turns < maxTurns
    /\ invocations' = invocations + 1
    /\ lastArg' = currentMessages
    /\ pc' = "awaitModel"
    /\ UNCHANGED <<entry, turns, currentMessages, toolCalls, i, pending, fs,
                   events, responses, execLog>>
    /\ UNCHANGED otherVars

RunLoopExit ==
    /\ pc = "loop"
    /\ entry = "run"
    /\ ~(turns < maxTurns)
    /\ pc' = "done"
    /\ UNCHANGED <<entry, turns, currentMessages, toolCalls, i, pending, fs,
                   events, invocations, lastArg, responses, execLog>>
    /\ UNCHANGED otherVars

\* Mutant of RunModelResponds: no `break` after the final response; the loop
\* goes on to `turns++` and the next invocation.
RunModelResponds_NoBreak ==
    /\ pc = "awaitModel"
    /\ entry = "run"
    /\ \E response \in Responses(currentMessages, freeCalls) :
         /\ currentMessages' = push(currentMessages, response)
         /\ responses' = Append(responses, response)
         /\ IF hasToolCalls(response)
            THEN /\ toolCalls' = response.tool_calls
                 /\ i' = 1
                 /\ pc' = "dispatch"
                 /\ turns' = turns
            ELSE /\ toolCalls' = toolCalls
                 /\ i' = i
                 /\ pc' = "loop"
                 /\ turns' = turns + 1
    /\ UNCHANGED <<entry, pending, fs, events, invocations, lastArg, execLog>>
    /\ UNCHANGED otherVars

RunModelResponds ==
    /\ pc = "awaitModel"
    /\ entry = "run"
    /\ \E response \in Responses(currentMessages, freeCalls) :
         /\ currentMessages' = push(currentMessages, response)
         /\ responses' = Append(responses, response)
         /\ IF hasToolCalls(response)
            THEN /\ toolCalls' = response.tool_calls
                 /\ i' = 1
                 /\ pc' = "dispatch"
            ELSE /\ toolCalls' = toolCalls
                 /\ i' = i
                 /\ pc' = "done"
    /\ UNCHANGED <<entry, turns, pending, fs, events, invocations, lastArg, execLog>>
    /\ UNCHANGED otherVars

RunModelFails ==
    /\ pc = "awaitModel"
    /\ entry = "run"
    /\ pc' = "done"
    /\ UNCHANGED <<entry, turns, currentMessages, toolCalls, i, pending, fs,
                   events, invocations, lastArg, responses, execLog>>
    /\ UNCHANGED otherVars

RunDispatch ==
    /\ pc = "dispatch"
    /\ entry = "run"
    /\ dispatchToolCall
    /\ UNCHANGED <<entry, toolCalls, events, invocations, lastArg, responses>>
    /\ UNCHANGED otherVars

RunToolSettles ==
    /\ pc = "awaitTool"
    /\ entry = "run"
    /\ execLog' = Append(execLog, <<"end", invocations, i>>)
    /\ IF pending.thrown
       THEN /\ pc' = "done"
            /\ UNCHANGED <<currentMessages, i, turns>>
       ELSE /\ currentMessages' =
                  push(currentMessages,
                       ToolMessage(toolCallId(toolCalls[i]), pending.value))
            /\ nextToolCall
    /\ UNCHANGED <<entry, toolCalls, pending, fs, events, invocations, lastArg,
                   responses>>
    /\ UNCHANGED otherVars

\* ------------------------------------------------------- specification
Next ==
    \/ Start
    \/ InvokeModel
    \/ LoopExit
    \/ ModelResponds
    \/ ModelFails
    \/ ResumeAfterToolStart
    \/ Dispatch
    \/ ToolSettles
    \/ ResumeAfterToolResult
    \/ ResumeAfterTerminal
    \/ RunStart
    \/ RunInvokeModel
    \/ RunLoopExit
    \/ RunModelResponds
    \/ RunModelFails
    \/ RunDispatch
    \/ RunToolSettles

Spec == Init /\ [][Next]_vars

\* Every model invocation and tool execution settles and the consumer keeps
\* requesting the next record.
FairSpec == Spec /\ WF_vars(Next)


\* ------------------------------------------------------- indexCodebase
\* No agent loop is running.
AgentIdle ==
    /\ entry = "none"
    /\ pc = "idle"
    /\ turns = 0
    /\ currentMessages = <<>>
    /\ toolCalls = <<>>
    /\ i = 0
    /\ pending = NoPending
    /\ fs = [p \in Paths |-> Absent]
    /\ events = <<>>
    /\ invocations = 0
    /\ lastArg = <<>>
    /\ responses = <<>>
    /\ execLog = <<>>

\* A chunk as pushed by the scan: no embedding yet.  A chunk is identified
\* by its position in the array.
DocumentChunk == [embedding |-> Undefined]

\* indexCodebase has scanned and split the files: chunks holds the chunks
\* generated, none with an embedding.
IdxInit ==
    /\ AgentIdle
    /\ NoExecutions
    /\ NoIndex
    /\ RestIdle
    /\ freeCalls = 0
    /\ ipc = "chunked"
    /\ \E n \in 0..MaxChunks : chunks = [j \in 1..n |-> DocumentChunk]
    /\ embeddings_arg \in {"given", Undefined}
    /\ OPENAI_API_KEY \in BOOLEAN
    /\ batch_i = 0
    /\ outputFile = NoFile

\* `if (!embeddings && !process.env.OPENAI_API_KEY)`: embedding generation
\* is skipped, the index will be text-only.
SkipEmbedding ==
    /\ ipc = "chunked"
    /\ embeddings_arg = Undefined /\ ~OPENAI_API_KEY
    /\ ipc' = "write"
    /\ UNCHANGED <<chunks, embeddings_arg, OPENAI_API_KEY, batch_i, outputFile>>
    /\ UNCHANGED <<agentVars, retrievalVars, freeCalls, concurrentVars, restVars>>

\* The else branch: the embedder is the one given or a new OpenAIEmbeddings,
\* and the batch loop starts with i = 0.
BeginEmbedding ==
    /\ ipc = "chunked"
    /\ ~(embeddings_arg = Undefined /\ ~OPENAI_API_KEY)
    /\ batch_i' = 0
    /\ ipc' = "batchLoop"
    /\ UNCHANGED <<chunks, embeddings_arg, OPENAI_API_KEY, outputFile>>
    /\ UNCHANGED <<agentVars, retrievalVars, freeCalls, concurrentVars, restVars>>

\* `i < chunks.length`: the batch chunks.slice(i, i + batchSize) is sent to
\* embedder.embedDocuments, which is awaited.
EmbedBatch ==
    /\ ipc = "batchLoop"
    /\ batch_i < Len(chunks)
    /\ ipc' = "awaitEmbed"
    /\ UNCHANGED <<chunks, embeddings_arg, OPENAI_API_KEY, batch_i, outputFile>>
    /\ UNCHANGED <<agentVars, retrievalVars, freeCalls, concurrentVars, restVars>>

\* The positions (1-based) of chunks.slice(i, i + batchSize).
slice(n, from, to) == { j \in 1..n : from < j /\ j <= to }

\* embedDocuments resolves: every chunk of the batch gets its vector;
\* then i += batchSize.
EmbedBatchResolves ==
    /\ ipc = "awaitEmbed"
    /\ chunks' = [j \in 1..Len(chunks) |->
                    IF j \in slice(Len(chunks), batch_i, batch_i + batchSize)
                    THEN [embedding |-> "vector"] ELSE chunks[j]]
    /\ batch_i' = batch_i + batchSize
    /\ ipc' = "batchLoop"
    /\ UNCHANGED <<embeddings_arg, OPENAI_API_KEY, outputFile>>
    /\ UNCHANGED <<agentVars, retrievalVars, freeCalls, concurrentVars, restVars>>

\* embedDocuments rejects: the catch logs the error and the loop goes on
\* with the next batch.
EmbedBatchRejects ==
    /\ ipc = "awaitEmbed"
    /\ batch_i' = batch_i + batchSize
    /\ ipc' = "batchLoop"
    /\ UNCHANGED <<chunks, embeddings_arg, OPENAI_API_KEY, outputFile>>
    /\ UNCHANGED <<agentVars, retrievalVars, freeCalls, concurrentVars, restVars>>

\* The batch loop ends.
BatchesDone ==
    /\ ipc = "batchLoop"
    /\ batch_i >= Len(chunks)
    /\ ipc' = "write"
    /\ UNCHANGED <<chunks, embeddings_arg, OPENAI_API_KEY, batch_i, outputFile>>
    /\ UNCHANGED <<agentVars, retrievalVars, freeCalls, concurrentVars, restVars>>

\* fs.writeFileSync(outputFile, JSON.stringify(chunks, null, 2))
WriteIndex ==
    /\ ipc = "write"
    /\ outputFile' = [exists |-> TRUE, content |-> chunks]
    /\ ipc' = "done"
    /\ UNCHANGED <<chunks, embeddings_arg, OPENAI_API_KEY, batch_i>>
    /\ UNCHANGED <<agentVars, retrievalVars, freeCalls, concurrentVars, restVars>>

IdxNext ==
    \/ SkipEmbedding
    \/ BeginEmbedding
    \/ EmbedBatch
    \/ EmbedBatchResolves
    \/ EmbedBatchRejects
    \/ BatchesDone
    \/ WriteIndex

IdxSpec == IdxInit /\ [][IdxNext]_vars


\* ----------------------------------------------------- retrieveContext
\* An agent with a loaded index: runStream is about to call retrieveContext
\* with the default k, or retrieveContext is called directly with a count.
\* The model answers with the tail responses.
RetrInit ==
    /\ IndexerIdle
    /\ NoExecutions
    /\ entry \in {"runStream", "retrieveContext"}
    /\ pc = "retrieve"
    /\ turns = 0
    /\ currentMessages = <<>>
    /\ toolCalls = <<>>
    /\ i = 0
    /\ pending = NoPending
    /\ fs = [p \in Paths |-> Absent]
    /\ events = <<>>
    /\ invocations = 0
    /\ lastArg = <<>>
    /\ responses = <<>>
    /\ execLog = <<>>
    /\ index \in Indexes
    /\ embeddings \in {"configured", "null"}
    /\ k_arg \in (IF entry = "retrieveContext" THEN Ks ELSE {DefaultK})
    /\ queryEmbedding = NotEmbedded
    /\ context = ""
    /\ freeCalls = 0
    /\ messageHistory \in (IF entry = "runStream" THEN Histories ELSE {<<>>})
    /\ AgentConstructed
    /\ NoApplication
    /\ LaterIdle

\* Whether evaluating the guards of retrieveContext throws a TypeError, for
\* a this.index that JSON.parse returned and that is not a list:
\* `this.index.length` throws on null; on an object or a number it is
\* undefined, which is not 0, so unless this.embeddings is null
\* `this.index[0].embedding` reads a property of undefined.  (On a string the
\* length is a number and "abc"[0].embedding is undefined: no throw.)
\* The guards are outside the try block: the promise of retrieveContext
\* rejects, and so does the `await` on the first line of runStream.
guardsThrow(kind, emb) ==
    \/ kind = "null"
    \/ kind \in {"object", "number"} /\ emb # "null"

\* Where control is once retrieveContext has returned: back in the caller
\* (runStream builds the messages) or at the direct caller.
afterRetrieve == IF entry = "retrieveContext" THEN "returned" ELSE "start"

\* The guards of retrieveContext: return "" at once, or call
\* this.embeddings.embedQuery(query) and await it.
Retrieve ==
    /\ pc = "retrieve"
    /\ IF guardsThrow(indexKind, embeddings)
       THEN /\ context' = context
            /\ pc' = "thrown"
       ELSE IF indexKind # "list" \/ skipsRetrieval(index, embeddings)
       THEN /\ context' = ""
            /\ pc' = afterRetrieve
       ELSE /\ context' = context
            /\ pc' = "awaitEmbedQuery"
    /\ UNCHANGED <<entry, turns, currentMessages, toolCalls, i, pending, fs,
                   events, invocations, lastArg, responses, execLog>>
    /\ UNCHANGED <<index, embeddings, k_arg, queryEmbedding>>
    /\ UNCHANGED <<indexerVars, freeCalls, concurrentVars, restVars>>

\* Mutant of EmbedQueryResolves: the chunks are sorted in place, in
\* this.index itself instead of in the copy made by map.
EmbedQueryResolves_SortsInPlace ==
    /\ pc = "awaitEmbedQuery"
    /\ \E v \in QueryVectors :
         /\ queryEmbedding' = [state |-> "resolved", vector |-> v]
         /\ context' = topK(index, v, k_arg)
         /\ index' = LET sorted == sortByScore([j \in 1..Len(index) |-> scoreOf(index[j], v)])
                     IN  [r \in 1..Len(index) |-> index[sorted[r]]]
    /\ pc' = afterRetrieve
    /\ UNCHANGED <<entry, turns, currentMessages, toolCalls, i, pending, fs,
                   events, invocations, lastArg, responses, execLog>>
    /\ UNCHANGED <<embeddings, k_arg>>
    /\ UNCHANGED <<indexerVars, freeCalls, concurrentVars, restVars>>

\* embedQuery resolves: the chunks are scored (map builds a new array),
\* sorted, cut to k and joined.
EmbedQueryResolves ==
    /\ pc = "awaitEmbedQuery"
    /\ \E v \in QueryVectors :
         /\ queryEmbedding' = [state |-> "resolved", vector |-> v]
         /\ context' = topK(index, v, k_arg)
    /\ pc' = afterRetrieve
    /\ UNCHANGED <<entry, turns, currentMessages, toolCalls, i, pending, fs,
                   events, invocations, lastArg, responses, execLog>>
    /\ UNCHANGED <<index, embeddings, k_arg>>
    /\ UNCHANGED <<indexerVars, freeCalls, concurrentVars, restVars>>

\* Mutant of EmbedQueryRejects: the try/catch is missing, the rejection
\* leaves retrieveContext and ends the caller.
EmbedQueryRejects_Uncaught ==
    /\ pc = "awaitEmbedQuery"
    /\ queryEmbedding' = [state |-> "rejected", vector |-> NoVector]
    /\ context' = context
    /\ pc' = "done"
    /\ UNCHANGED <<entry, turns, currentMessages, toolCalls, i, pending, fs,
                   events, invocations, lastArg, responses, execLog>>
    /\ UNCHANGED <<index, embeddings, k_arg>>
    /\ UNCHANGED <<indexerVars, freeCalls, concurrentVars, restVars>>

\* embedQuery rejects: the catch logs the error and returns "".
EmbedQueryRejects ==
    /\ pc = "awaitEmbedQuery"
    /\ queryEmbedding' = [state |-> "rejected", vector |-> NoVector]
    /\ context' = ""
    /\ pc' = afterRetrieve
    /\ UNCHANGED <<entry, turns, currentMessages, toolCalls, i, pending, fs,
                   events, invocations, lastArg, responses, execLog>>
    /\ UNCHANGED <<index, embeddings, k_arg>>
    /\ UNCHANGED <<indexerVars, freeCalls, concurrentVars, restVars>>

RetrNext ==
    \/ Retrieve
    \/ EmbedQueryResolves
    \/ EmbedQueryRejects
    \/ Start
    \/ InvokeModel
    \/ LoopExit
    \/ ModelResponds
    \/ ModelFails
    \/ ResumeAfterToolStart
    \/ Dispatch
    \/ ToolSettles
    \/ ResumeAfterToolResult
    \/ ResumeAfterTerminal

RetrSpec == RetrInit /\ [][RetrNext]_vars


\* ------------------------------------------- concurrent runStream calls
\* Two executions of runStream, started by two /api/chat requests (on the
\* one currentAgent) or on two Agents.  Each execution is the loop above
\* with its own locals; the file system is shared.
Executions == {1, 2}

\* What the model is asked to do in one region (a directory and its file)
\* of the file system, and how it goes about it: the outcomes of its
\* successive invocations (after them it answers plainly).
Call(name, args) == [name |-> name, args |-> args, hasId |-> TRUE]

Calls(shapes) ==
    [failed |-> FALSE,
     response |-> AIMessage("", [n \in 1..Len(shapes) |-> ToolCall(shapes[n], n)], TRUE)]

ModelFailure == [failed |-> TRUE, response |-> AIMessage("", <<>>, FALSE)]

PlainAnswer == [failed |-> FALSE, response |-> AIMessage("Found it", <<>>, TRUE)]

Tasks(d, f) ==
    { [query |-> "explain " \o f, script |-> <<>>],
      [query |-> "create " \o f,
       script |-> << Calls(<<Call("write_file", [path |-> f, content |-> "x"])>>),
                     Calls(<<Call("read_file", [path |-> f, content |-> Undefined])>>) >>],
      [query |-> "inspect " \o d,
       script |-> << Calls(<<Call("list_files", [path |-> d, content |-> Undefined]),
                             Call("read_file", [path |-> f, content |-> Undefined])>>) >>],
      [query |-> "break " \o f,
       script |-> << Calls(<<Call("read_file", NoArgs)>>) >>],
      [query |-> "retry " \o f,
       script |-> << Calls(<<Call("write_file", [path |-> f, content |-> "y"]),
                             Call("run_shell", [path |-> f, content |-> Undefined])>>),
                     ModelFailure >>] }

\* The model is a function of the transcript it is passed: it follows the
\* script of the latest query, as far as the assistant messages after that
\* query say it has come.
reply(msgs) ==
    LET humans == { n \in 1..Len(msgs) : msgs[n].type = "human" } IN
    IF humans = {} THEN ModelFailure
    ELSE LET h == CHOOSE n \in humans : \A o \in humans : o <= n
             script == (CHOOSE t \in Tasks(D, F) \cup Tasks(E, G) :
                          t.query = msgs[h].content).script
             done == Cardinality({ n \in (h+1)..Len(msgs) : msgs[n].type = "ai" })
         IN  IF done < Len(script) THEN script[done + 1] ELSE PlainAnswer

\* The locals of an execution that has been called with query.
Called(query) ==
    [query |-> query, pc |-> "start", turns |-> 0, toolCalls |-> <<>>, i |-> 0,
     pending |-> NoPending, events |-> <<>>, invocations |-> 0]

\* One step of the loop of runStream on the locals x, the transcript msgs
\* and the file system fsys; the steps are those of the actions Start to
\* ResumeAfterTerminal.
afterToolCall(x) ==
    IF x.i < Len(x.toolCalls)
    THEN [x EXCEPT !.i = x.i + 1, !.pc = "dispatch"]
    ELSE [x EXCEPT !.pc = "loop", !.turns = x.turns + 1]

step(s) ==
    LET x == s.x  msgs == s.msgs  fsys == s.fs IN
    CASE x.pc = "start" ->
           [s EXCEPT !.x.pc = "loop",
                     !.msgs = <<SystemMessage(""), HumanMessage(x.query)>>]
      [] x.pc = "loop" ->
           IF x.turns < maxTurns
           THEN [s EXCEPT !.x.pc = "awaitModel", !.x.invocations = x.invocations + 1]
           ELSE [s EXCEPT !.x.pc = "done"]
      [] x.pc = "awaitModel" ->
           LET outcome == reply(msgs) IN
           IF outcome.failed
           THEN [s EXCEPT !.x.pc = "yieldError",
                          !.x.events = Append(x.events, ErrorEvent("fetch failed"))]
           ELSE IF hasToolCalls(outcome.response)
           THEN [s EXCEPT !.msgs = push(msgs, outcome.response),
                          !.x.toolCalls = outcome.response.tool_calls,
                          !.x.events = Append(x.events,
                                              ToolStartEvent(outcome.response.tool_calls)),
                          !.x.pc = "yieldStart"]
           ELSE [s EXCEPT !.msgs = push(msgs, outcome.response),
                          !.x.events = Append(x.events,
                                              MessageEvent(outcome.response.content)),
                          !.x.pc = "yieldMessage"]
      [] x.pc = "yieldStart" ->
           [s EXCEPT !.x.i = 1, !.x.pc = "dispatch"]
      [] x.pc = "dispatch" ->
           LET toolCall == x.toolCalls[x.i] IN
           IF findTool(toolCall.name)
           THEN LET outcome == func(toolCall.name, toolCall.args, fsys) IN
                [s EXCEPT !.fs = outcome.fs,
                          !.x.pending = [thrown |-> outcome.thrown,
                                         value |-> outcome.value],
                          !.x.pc = "awaitTool"]
           ELSE [s EXCEPT !.msgs = push(msgs, ToolMessage(toolCallId(toolCall),
                                                          "Error: Tool not found")),
                          !.x = afterToolCall(x)]
      [] x.pc = "awaitTool" ->
           IF x.pending.thrown
           THEN [s EXCEPT !.x.pc = "yieldError",
                          !.x.events = Append(x.events, ErrorEvent(x.pending.value))]
           ELSE [s EXCEPT !.x.pc = "yieldResult",
                          !.x.events = Append(x.events,
                                ToolResultEvent(x.toolCalls[x.i].name, x.pending.value))]
      [] x.pc = "yieldResult" ->
           [s EXCEPT !.msgs = push(msgs, ToolMessage(toolCallId(x.toolCalls[x.i]),
                                                     x.pending.value)),
                     !.x = afterToolCall(x)]
      [] x.pc \in {"yieldMessage", "yieldError"} ->
           [s EXCEPT !.x.pc = "done"]

\* Mutant of owner: the transcript is kept on the Agent (a field shared by
\* the executions started on it).
owner_PerAgent(e) == agentOf[e]

\* `const currentMessages: BaseMessage[] = [...]` is a local of the call:
\* the transcript of execution e belongs to e alone.
owner(e) == e

ConcInit ==
    /\ AgentIdle
    /\ IndexerIdle
    /\ NoIndex
    /\ RestIdle
    /\ freeCalls = 0
    /\ agentOf \in { <<1, 1>>, <<1, 2>> }
    /\ \E t1 \in Tasks(D, F), t2 \in Tasks(E, G) :
         runs = << Called(t1.query), Called(t2.query) >>
    /\ transcripts = << <<>>, <<>> >>

\* Execution e takes its next step.
Advance(e) ==
    /\ LET s == step([x |-> runs[e], msgs |-> transcripts[owner(e)], fs |-> fs]) IN
         /\ runs' = [runs EXCEPT ![e] = s.x]
         /\ transcripts' = [transcripts EXCEPT ![owner(e)] = s.msgs]
         /\ fs' = s.fs
    /\ UNCHANGED <<entry, pc, turns, currentMessages, toolCalls, i, pending,
                   events, invocations, lastArg, responses, execLog>>
    /\ UNCHANGED <<agentOf, indexerVars, retrievalVars, freeCalls, restVars>>

\* retrieveContext has returned; the initial messages are built.
ConcStart ==
    \E e \in Executions :
       /\ runs[e].pc = "start"
       /\ Advance(e)

\* The while condition: the model is invoked, or the generator returns.
ConcInvokeModel ==
    \E e \in Executions :
       /\ runs[e].pc = "loop"
       /\ Advance(e)

\* The model invocation of an execution settles; a record is yielded.
ConcModelSettles ==
    \E e \in Executions :
       /\ runs[e].pc = "awaitModel"
       /\ Advance(e)

\* The consumer of an execution requests its next record.
ConcResume ==
    \E e \in Executions :
       /\ runs[e].pc \in {"yieldStart", "yieldResult", "yieldMessage", "yieldError"}
       /\ Advance(e)

\* The next tool call of an execution's batch is dispatched.
ConcDispatch ==
    \E e \in Executions :
       /\ runs[e].pc = "dispatch"
       /\ Advance(e)

\* The awaited tool promise of an execution settles.
ConcToolSettles ==
    \E e \in Executions :
       /\ runs[e].pc = "awaitTool"
       /\ Advance(e)

ConcNext ==
    \/ ConcStart
    \/ ConcInvokeModel
    \/ ConcModelSettles
    \/ ConcResume
    \/ ConcDispatch
    \/ ConcToolSettles

ConcSpec == ConcInit /\ [][ConcNext]_vars


\* ------------------------------------- the Agent constructor and /api/chat
\* The texts the index file may hold: text that is not JSON, JSON values that
\* are not lists, the empty list and a list of one embedded chunk.
OneChunkText == "[{\"path\":\"src/f1.ts\",\"content\":\"c1\",\"embedding\":[1,0]}]"
IndexTexts == {"not json", "null", "{}", "7", "\"abc\"", "[]", OneChunkText}

IndexFiles == {NoIndexFile} \cup {[exists |-> TRUE, text |-> t] : t \in IndexTexts}

\* JSON.parse(text): a SyntaxError, or the value: its kind and, for a list,
\* its items.
JSONparse(json) ==
    CASE json = "null"    -> [thrown |-> FALSE, kind |-> "null", items |-> <<>>]
      [] json = "{}"      -> [thrown |-> FALSE, kind |-> "object", items |-> <<>>]
      [] json = "7"       -> [thrown |-> FALSE, kind |-> "number", items |-> <<>>]
      [] json = "\"abc\"" -> [thrown |-> FALSE, kind |-> "string", items |-> <<>>]
      [] json = "[]"      -> [thrown |-> FALSE, kind |-> "list", items |-> <<>>]
      [] json = OneChunkText ->
             [thrown |-> FALSE, kind |-> "list",
              items |-> << [path |-> "src/f1.ts", content |-> "c1", embedding |-> <<1, 0>>] >>]
      [] OTHER            -> [thrown |-> TRUE, kind |-> "list", items |-> <<>>]

\* The first block of the constructor: this.index starts as [] and is
\* replaced by whatever JSON.parse returns when the file exists and parses.
loadIndex(file) ==
    LET parsed == JSONparse(file.text) IN
    IF file.exists /\ ~parsed.thrown
    THEN [kind |-> parsed.kind, items |-> parsed.items]
    ELSE [kind |-> "list", items |-> <<>>]

\* The providers a configuration may name; the last one is not an LLMProvider.
Providers == {"openai", "google", "ollama", "openrouter", "lmstudio", "mistral"}

\* LLMFactory.createModel: the chat model class for the provider, or the
\* error of the default branch.
createModel(p) ==
    CASE p = "openai"                    -> [thrown |-> FALSE, value |-> "ChatOpenAI"]
      [] p = "google"                    -> [thrown |-> FALSE, value |-> "ChatGoogleGenerativeAI"]
      [] p = "ollama"                    -> [thrown |-> FALSE, value |-> "ChatOllama"]
      [] p \in {"openrouter", "lmstudio"} -> [thrown |-> FALSE, value |-> "ChatOpenAI"]
      [] OTHER -> [thrown |-> TRUE, value |-> "Unsupported provider: " \o p]

\* LLMFactory.createEmbeddings.
createEmbeddings(p) ==
    IF p = "ollama" THEN "OllamaEmbeddings" ELSE "OpenAIEmbeddings"

\* Mutant of newAgent: the catch block logs the error and does not rethrow.
newAgent_Swallow(file, p) ==
    LET llm == createModel(p) IN
    [thrown |-> FALSE,
     index |-> loadIndex(file),
     embeddings |-> IF llm.thrown THEN "null" ELSE "configured"]

\* new Agent(indexPath, config) of agent.ts: the index is loaded, then the
\* model and the embedder are created; an error of the factory is logged and
\* rethrown, so that the `new` expression throws and yields no instance.
newAgent(file, p) ==
    LET llm == createModel(p) IN
    [thrown |-> llm.thrown,
     index |-> loadIndex(file),
     embeddings |-> IF llm.thrown THEN "null" ELSE "configured"]

\* The config file from which the module body loaded the configuration p:
\* the default configuration needs no file.
loadedFrom(p) ==
    IF p = "openai" THEN NoConfigFile ELSE [exists |-> TRUE, provider |-> p]

\* The server has just been started, or the CLI is about to construct its
\* agent; no agent exists and no loop runs.
ChatInit ==
    /\ AgentIdle
    /\ NoExecutions
    /\ NoIndex
    /\ NoHistory
    /\ NoApplication
    /\ FilesIdle
    /\ SplitIdle
    /\ UiIdle
    /\ consuming = TRUE
    /\ freeCalls = 0
    /\ ipc = "idle"
    /\ chunks = <<>>
    /\ embeddings_arg = Undefined
    /\ batch_i = 0
    /\ outputFile = NoFile
    /\ handler \in {"boot", "cli"}
    /\ OPENAI_API_KEY \in (IF handler = "cli" THEN BOOLEAN ELSE {FALSE})
    /\ indexFile \in IndexFiles
    /\ indexKind = "list"
    /\ provider \in (IF handler = "cli" THEN {"openai"} ELSE Providers)
    /\ configFile = loadedFrom(provider)
    /\ agentConfig = provider
    /\ agentIndex = NoAgentIndex
    /\ thisConfig = provider
    /\ lastResponse = NoResponse
    /\ indexing = FALSE
    /\ requests = 0
    /\ currentAgent = "null"
    /\ written = <<>>

\* The module body of the server: "Initialize agent if index exists", the
\* constructor's error being caught and logged.
Startup ==
    /\ handler = "boot"
    /\ LET a == newAgent(indexFile, provider) IN
       IF indexFile.exists /\ ~a.thrown
       THEN /\ currentAgent' = "constructed"
            /\ agentConfig' = provider
            /\ agentIndex' = a.index
            /\ index' = a.index.items
            /\ indexKind' = a.index.kind
            /\ embeddings' = a.embeddings
            /\ thisConfig' = provider
       ELSE UNCHANGED <<currentAgent, agentConfig, agentIndex, index, indexKind,
                        embeddings, thisConfig>>
    /\ handler' = "listening"
    /\ UNCHANGED <<agentVars, indexerVars, k_arg, queryEmbedding, context,
                   freeCalls, concurrentVars>>
    /\ UNCHANGED <<notChatVars, messageHistory, indexFile, provider, written,
                   vecA, vecB, similarity, toolLog>>

\* POST /api/chat up to the call of runStream: without an agent one is
\* constructed if the index file exists (outside any try: an error rejects
\* the handler), else the request is refused with status 400.
ChatRequest ==
    /\ handler = "listening"
    /\ IF currentAgent = "null"
       THEN IF indexFile.exists
            THEN LET a == newAgent(indexFile, provider) IN
                 IF a.thrown
                 THEN /\ handler' = "rejected"
                      /\ UNCHANGED <<currentAgent, agentConfig, agentIndex, index,
                                     indexKind, embeddings, thisConfig, entry, pc>>
                 ELSE /\ currentAgent' = "constructed"
                      /\ agentConfig' = provider
                      /\ agentIndex' = a.index
                      /\ index' = a.index.items
                      /\ indexKind' = a.index.kind
                      /\ embeddings' = a.embeddings
                      /\ thisConfig' = provider
                      /\ handler' = "streaming"
                      /\ entry' = "runStream"
                      /\ pc' = "retrieve"
            ELSE /\ handler' = "refused"
                 /\ UNCHANGED <<currentAgent, agentConfig, agentIndex, index,
                                indexKind, embeddings, thisConfig, entry, pc>>
       ELSE \* currentAgent.runStream(...): the generator is bound to the agent
            \* that currentAgent names now
            /\ index' = agentIndex.items
            /\ indexKind' = agentIndex.kind
            /\ embeddings' = "configured"
            /\ thisConfig' = agentConfig
            /\ handler' = "streaming"
            /\ entry' = "runStream"
            /\ pc' = "retrieve"
            /\ UNCHANGED <<currentAgent, agentConfig, agentIndex>>
    /\ UNCHANGED <<turns, currentMessages, toolCalls, i, pending, fs, events,
                   invocations, lastArg, responses, execLog>>
    /\ UNCHANGED <<indexerVars, k_arg, queryEmbedding, context, freeCalls,
                   concurrentVars>>
    /\ UNCHANGED <<notChatVars, messageHistory, indexFile, provider, written,
                   vecA, vecB, similarity, toolLog>>

\* What a `yield JSON.stringify({...}) + "\n"` of runStream hands to the
\* consumer: the record's JSON text followed by a newline.
yielded(e) == [body |-> e, newline |-> TRUE]

\* Every record yielded so far has been written to the response.
AllWritten == Len(written) = Len(events)

\* The body of the for-await loop: res.write(chunk).
ChatWrite ==
    /\ handler = "streaming"
    /\ Len(written) < Len(events)
    /\ written' = Append(written, yielded(events[Len(written) + 1]))
    /\ UNCHANGED <<agentVars, indexerVars, retrievalVars, freeCalls, concurrentVars>>
    /\ UNCHANGED <<laterVars, messageHistory, indexFile, indexKind, provider, currentAgent,
                   handler, vecA, vecB, similarity, toolLog>>

\* The for-await loop requests the next record once the chunk is written.
ChatResumeAfterToolStart ==
    /\ AllWritten
    /\ ResumeAfterToolStart

ChatResumeAfterToolResult ==
    /\ AllWritten
    /\ ResumeAfterToolResult

ChatResumeAfterTerminal ==
    /\ AllWritten
    /\ ResumeAfterTerminal

\* The stream has closed: res.end().
ChatEnd ==
    /\ handler = "streaming"
    /\ pc = "done"
    /\ AllWritten
    /\ handler' = "ended"
    /\ UNCHANGED <<agentVars, indexerVars, retrievalVars, freeCalls, concurrentVars>>
    /\ UNCHANGED <<laterVars, messageHistory, indexFile, indexKind, provider, currentAgent,
                   written, vecA, vecB, similarity, toolLog>>

\* e.message of the TypeError thrown by the guards of retrieveContext.
guardError(kind) ==
    IF kind = "null"
    THEN "Cannot read properties of null (reading 'length')"
    ELSE "Cannot read properties of undefined (reading 'embedding')"

\* The stream raised: the handler's catch writes
\* JSON.stringify({ type: 'error', content: e.message }), with no newline
\* appended, and ends the response.
ChatCatch ==
    /\ handler = "streaming"
    /\ pc = "thrown"
    /\ written' = Append(written, [body |-> ErrorEvent(guardError(indexKind)),
                                   newline |-> FALSE])
    /\ handler' = "ended"
    /\ UNCHANGED <<agentVars, indexerVars, retrievalVars, freeCalls, concurrentVars>>
    /\ UNCHANGED <<laterVars, messageHistory, indexFile, indexKind, provider, currentAgent,
                   vecA, vecB, similarity, toolLog>>

\* The constructor of the CLI's agent (the other Agent class): the index is
\* loaded in the same way; without OPENAI_API_KEY the process exits.
CliConstruct ==
    /\ handler = "cli"
    /\ IF OPENAI_API_KEY
       THEN /\ currentAgent' = "constructed"
            /\ index' = loadIndex(indexFile).items
            /\ indexKind' = loadIndex(indexFile).kind
            /\ embeddings' = "configured"
            /\ handler' = "cli ready"
       ELSE /\ handler' = "exited"
            /\ UNCHANGED <<currentAgent, index, indexKind, embeddings>>
    /\ UNCHANGED <<agentVars, indexerVars, k_arg, queryEmbedding, context,
                   freeCalls, concurrentVars>>
    /\ UNCHANGED <<laterVars, messageHistory, indexFile, provider, written,
                   vecA, vecB, similarity, toolLog>>

ChatNext ==
    \/ Startup
    \/ CliConstruct
    \/ ChatRequest
    \/ Retrieve
    \/ EmbedQueryResolves
    \/ EmbedQueryRejects
    \/ Start
    \/ InvokeModel
    \/ LoopExit
    \/ ModelResponds
    \/ ModelFails
    \/ Dispatch
    \/ ToolSettles
    \/ ChatWrite
    \/ ChatResumeAfterToolStart
    \/ ChatResumeAfterToolResult
    \/ ChatResumeAfterTerminal
    \/ ChatEnd
    \/ ChatCatch

ChatSpec == ChatInit /\ [][ChatNext]_vars


\* ----------------------------------------------- cosineSimilarity alone
\* The largest length of a vector and the largest size of a component.
MaxDim == 2
MaxComponent == 1

Components == (0 - MaxComponent)..MaxComponent

VectorsOfLength(n) == [1..n -> Components]

\* Two vectors of equal length.
CosInit ==
    /\ AgentIdle
    /\ IndexerIdle
    /\ NoExecutions
    /\ NoIndex
    /\ NoHistory
    /\ AgentConstructed
    /\ freeCalls = 0
    /\ \E n \in 0..MaxDim :
         /\ vecA \in VectorsOfLength(n)
         /\ vecB \in VectorsOfLength(n)
    /\ similarity = NotComputed
    /\ toolLog = <<>>
    /\ LaterIdle

\* cosineSimilarity is called on the two vectors, in both orders.
Compute ==
    /\ ~similarity.done
    /\ similarity' = [done |-> TRUE,
                      ab |-> cosineSimilarity(vecA, vecB),
                      ba |-> cosineSimilarity(vecB, vecA)]
    /\ UNCHANGED <<agentVars, indexerVars, retrievalVars, freeCalls, concurrentVars>>
    /\ UNCHANGED <<laterVars, messageHistory, indexFile, indexKind, provider, currentAgent,
                   handler, written, vecA, vecB, toolLog>>

CosNext == Compute

CosSpec == CosInit /\ [][CosNext]_vars

\* -------------------------------------------------- the handlers alone
\* How many handler invocations are made in a row.
MaxToolCalls == 3

\* The file systems the handlers start on: nothing there, the directory
\* there, the file there, and a regular file where the directory would be.
FileSystems ==
    { [p \in Paths |-> Absent],
      [[p \in Paths |-> Absent] EXCEPT ![D] = Dir],
      [[p \in Paths |-> Absent] EXCEPT ![D] = Dir, ![F] = File("old")],
      [[p \in Paths |-> Absent] EXCEPT ![D] = File("old")] }

\* The invocations: name and argument payload.
ToolInputs ==
    { [name |-> "read_file", args |-> [path |-> F, content |-> Undefined]],
      [name |-> "read_file", args |-> [path |-> D, content |-> Undefined]],
      [name |-> "write_file", args |-> [path |-> F, content |-> "x"]],
      [name |-> "write_file", args |-> [path |-> F, content |-> "y"]],
      [name |-> "write_file", args |-> [path |-> F, content |-> ""]],
      [name |-> "write_file", args |-> [path |-> G, content |-> "x"]],
      [name |-> "list_files", args |-> [path |-> D, content |-> Undefined]] }

ToolInit ==
    /\ entry = "none"
    /\ pc = "idle"
    /\ turns = 0
    /\ currentMessages = <<>>
    /\ toolCalls = <<>>
    /\ i = 0
    /\ pending = NoPending
    /\ fs \in FileSystems
    /\ events = <<>>
    /\ invocations = 0
    /\ lastArg = <<>>
    /\ responses = <<>>
    /\ execLog = <<>>
    /\ IndexerIdle
    /\ NoExecutions
    /\ NoIndex
    /\ NoHistory
    /\ AgentConstructed
    /\ freeCalls = 0
    /\ vecA = <<>>
    /\ vecB = <<>>
    /\ similarity = NotComputed
    /\ toolLog = <<>>
    /\ LaterIdle

\* One handler is invoked and settles: tool.func(args).
CallTool ==
    /\ Len(toolLog) < MaxToolCalls
    /\ \E call \in ToolInputs :
         LET outcome == func(call.name, call.args, fs) IN
         /\ fs' = outcome.fs
         /\ toolLog' = Append(toolLog,
                [name |-> call.name, args |-> call.args,
                 parentBefore |-> IF dirname(call.args.path) \in Paths
                                  THEN fs[dirname(call.args.path)].kind ELSE "dir",
                 parentAfter |-> IF dirname(call.args.path) \in Paths
                                 THEN outcome.fs[dirname(call.args.path)].kind ELSE "dir",
                 thrown |-> outcome.thrown,
                 value |-> outcome.value])
    /\ UNCHANGED <<entry, pc, turns, currentMessages, toolCalls, i, pending,
                   events, invocations, lastArg, responses, execLog>>
    /\ UNCHANGED <<indexerVars, retrievalVars, freeCalls, concurrentVars>>
    /\ UNCHANGED <<laterVars, messageHistory, indexFile, indexKind, provider, currentAgent,
                   handler, written, vecA, vecB, similarity>>

ToolNext == CallTool

ToolSpec == ToolInit /\ [][ToolNext]_vars


\* ------------------------------------------------------- GET /api/files
\* How many segments a requested path has at most.
MaxSegments == 3

\* Path segments, as the sequences of their characters.
SegA == <<"a">>
SegAB == <<"a", "b">>
SegB == <<"b">>
SegF == <<"f">>
DotDot == <<".", ".">>

\* DEFAULT_ROOT_DIR (process.cwd()): the directory /a.
DEFAULT_ROOT_DIR == <<SegA>>

\* The directories and the regular files of the machine: /a with a
\* subdirectory and a file, and beside it /ab (with a file) and /b.
Directories == {<<>>, <<SegA>>, <<SegA, SegB>>, <<SegAB>>, <<SegB>>}
RegularFiles == {<<SegA, SegF>>, <<SegAB, SegF>>}

\* The string of an absolute path: "/" before every segment.
RECURSIVE render(_)
render(segs) ==
    IF segs = <<>> THEN <<>>
    ELSE <<"/">> \o Head(segs) \o render(Tail(segs))

pathString(segs) == IF segs = <<>> THEN <<"/">> ELSE render(segs)

\* String.prototype.startsWith
startsWith(s, prefix) ==
    /\ Len(prefix) <= Len(s)
    /\ SubSeq(s, 1, Len(prefix)) = prefix

\* Normalisation of path.resolve: ".." removes the segment before it.
RECURSIVE normalize(_, _)
normalize(done, todo) ==
    IF todo = <<>> THEN done
    ELSE IF Head(todo) = DotDot
         THEN normalize(IF done = <<>> THEN <<>> ELSE SubSeq(done, 1, Len(done) - 1),
                        Tail(todo))
         ELSE normalize(Append(done, Head(todo)), Tail(todo))

\* path.resolve(base, raw): an absolute raw path replaces the base.
resolve(base, raw) ==
    IF raw.absolute THEN normalize(<<>>, raw.segments)
    ELSE normalize(base, raw.segments)

\* The requested paths: req.query.path absent, or a relative or absolute path.
SegmentLists ==
    UNION { [1..n -> {SegA, SegAB, SegB, SegF, DotDot}] : n \in 0..MaxSegments }

RawPaths ==
    {NoRawPath} \cup
    { [given |-> TRUE, absolute |-> a, segments |-> s] :
        a \in BOOLEAN, s \in SegmentLists \ {<<>>} }

\* fs.readdirSync(dir, {withFileTypes: true}) mapped to name, isDirectory
\* and path.
readdir(dir) ==
    { [name |-> p[Len(p)], isDirectory |-> p \in Directories, path |-> p] :
        p \in { q \in Directories \cup RegularFiles :
                  Len(q) = Len(dir) + 1 /\ SubSeq(q, 1, Len(dir)) = dir } }

\* The handler up to its first res.json: the response it sends (the
\* statements after it cannot change a response that has been sent).
apiFiles(raw) ==
    LET dir == resolve(DEFAULT_ROOT_DIR, raw) IN
    IF ~startsWith(pathString(dir), pathString(DEFAULT_ROOT_DIR))
    THEN [status |-> 403, files |-> {}, currentPath |-> <<>>]
    ELSE IF dir \notin Directories \cup RegularFiles
    THEN [status |-> 404, files |-> {}, currentPath |-> <<>>]
    ELSE IF dir \in RegularFiles
    THEN [status |-> 500, files |-> {}, currentPath |-> <<>>]
    ELSE [status |-> 200, files |-> readdir(dir), currentPath |-> dir]

FilesInit ==
    /\ AgentIdle
    /\ IndexerIdle
    /\ NoExecutions
    /\ NoIndex
    /\ NoHistory
    /\ AgentConstructed
    /\ NoApplication
    /\ freeCalls = 0
    /\ FilesIdle
    /\ SplitIdle
    /\ UiIdle
    /\ SrvIdle
    /\ consuming = TRUE

\* One GET /api/files request is answered.
GetFiles ==
    /\ \E raw \in RawPaths :
         /\ rawPath' = raw
         /\ filesResponse' = apiFiles(raw)
    /\ UNCHANGED <<mainVars, splitVars, uiVars, srvVars, consuming>>

FilesNext == GetFiles

FilesSpec == FilesInit /\ [][FilesNext]_vars

\* ------------------------------------------- SimpleTextSplitter.splitText
\* The longest text and the largest chunkSize and chunkOverlap.
MaxText == 4
MaxChunkSize == 3
MaxOverlap == 3

\* The characters of a text: a letter and the characters of the separators.
Characters == {"x", " ", "\n"}

Texts == UNION { [1..n -> Characters] : n \in 0..MaxText }

\* const separators = ['\n\n', '\n', ' ']
separators == << <<"\n", "\n">>, <<"\n">>, <<" ">> >>

\* text.slice(from, to), with 0-based indices, `to` exclusive.
sliceText(t, from, to) ==
    SubSeq(t, from + 1, IF to < Len(t) THEN to ELSE Len(t))

\* slice.lastIndexOf(sep): the last 0-based position of sep, or -1.
lastIndexOf(s, sep) ==
    LET S == { j \in 0..(Len(s) - Len(sep)) : SubSeq(s, j + 1, j + Len(sep)) = sep } IN
    IF S = {} THEN -1 ELSE CHOOSE j \in S : \A l \in S : l <= j

\* The for loop over the separators: the first separator, in priority
\* order, whose last position is beyond chunkOverlap / 2 gives the split
\* index (the position after it); -1 when there is none.
RECURSIVE findSplitIndex(_, _, _)
findSplitIndex(s, overlap, n) ==
    IF n > Len(separators) THEN -1
    ELSE LET lastSepIndex == lastIndexOf(s, separators[n]) IN
         IF lastSepIndex # -1 /\ 2 * lastSepIndex > overlap
         THEN lastSepIndex + Len(separators[n])
         ELSE findSplitIndex(s, overlap, n + 1)

Max(a, b) == IF a > b THEN a ELSE b

\* Mutant of nextStart: the next chunk starts one position after the overlap.
nextStart_PastOverlap(start, endIndex, overlap) ==
    Max(start + 1, endIndex - overlap + 1)

\* startIndex = Math.max(startIndex + 1, endIndex - this.chunkOverlap)
nextStart(start, endIndex, overlap) ==
    Max(start + 1, endIndex - overlap)

\* splitText is about to be called on a splitter with chunkSize >= 1 and
\* chunkOverlap >= 0.
SplitInit ==
    /\ AgentIdle
    /\ IndexerIdle
    /\ NoExecutions
    /\ NoIndex
    /\ NoHistory
    /\ AgentConstructed
    /\ NoApplication
    /\ freeCalls = 0
    /\ FilesIdle
    /\ UiIdle
    /\ SrvIdle
    /\ consuming = TRUE
    /\ text \in Texts
    /\ chunkSize \in 1..MaxChunkSize
    /\ chunkOverlap \in 0..MaxOverlap
    /\ startIndex = 0
    /\ splitChunks = <<>>
    /\ splitPc = "call"

\* `if (!text) return []`, else the locals are initialised.
SplitCall ==
    /\ splitPc = "call"
    /\ splitPc' = IF text = <<>> THEN "returned" ELSE "loop"
    /\ UNCHANGED <<text, chunkSize, chunkOverlap, startIndex, splitChunks>>
    /\ UNCHANGED <<mainVars, filesVars, uiVars, srvVars, consuming>>

\* The while condition and one iteration of the loop body.
SplitIteration ==
    /\ splitPc = "loop"
    /\ IF ~(startIndex < Len(text))
       THEN /\ splitPc' = "returned"
            /\ UNCHANGED <<startIndex, splitChunks>>
       ELSE LET endIndex == startIndex + chunkSize IN
            IF endIndex >= Len(text)
            THEN /\ splitChunks' = Append(splitChunks,
                      [start |-> startIndex,
                       text |-> sliceText(text, startIndex, Len(text))])
                 /\ splitPc' = "returned"
                 /\ UNCHANGED startIndex
            ELSE LET splitIndex == findSplitIndex(sliceText(text, startIndex, endIndex),
                                                  chunkOverlap, 1)
                     cut == IF splitIndex # -1 THEN startIndex + splitIndex ELSE endIndex
                     next == nextStart(startIndex, cut, chunkOverlap)
                 IN  /\ splitChunks' = Append(splitChunks,
                           [start |-> startIndex,
                            text |-> sliceText(text, startIndex, cut)])
                     /\ startIndex' = IF next < 0 THEN 0 ELSE next
                     /\ splitPc' = "loop"
    /\ UNCHANGED <<text, chunkSize, chunkOverlap>>
    /\ UNCHANGED <<mainVars, filesVars, uiVars, srvVars, consuming>>

SplitNext ==
    \/ SplitCall
    \/ SplitIteration

SplitSpec == SplitInit /\ [][SplitNext]_vars

\* The call is not suspended anywhere: splitText is synchronous code.
FairSplitSpec == SplitSpec /\ WF_vars(SplitNext)

\* ------------------------------------------------ vocabulary of the claims
Registered == {"read_file", "write_file", "list_files"}

IsPrefix(a, b) == Len(a) <= Len(b) /\ \A k \in 1..Len(a) : a[k] = b[k]
IsStrictPrefix(a, b) == IsPrefix(a, b) /\ Len(a) < Len(b)

IsTerminal(e) == e.type \in {"message", "error"}

\* A response without tool calls (a plain answer).
IsPlain(r) == ~r.tool_calls_defined \/ r.tool_calls = <<>>

Closed == pc = "done"

\* The position of the closest assistant message before position k (0: none).
PrecedingAI(msgs, k) ==
    LET S == {j \in 1..(k - 1) : msgs[j].type = "ai"} IN
    IF S = {} THEN 0 ELSE CHOOSE j \in S : \A l \in S : l <= j

\* The tool-result messages that follow the assistant message at position a,
\* up to the next assistant message.
ToolMessagesAfter(msgs, a) ==
    LET S == {k \in (a + 1)..Len(msgs) : msgs[k].type = "tool" /\ PrecedingAI(msgs, k) = a}
    IN  Cardinality(S)

\* The records yielded after the latest tool_start record.
LastStart(evs) ==
    LET S == {k \in 1..Len(evs) : evs[k].type = "tool_start"} IN
    IF S = {} THEN 0 ELSE CHOOSE j \in S : \A l \in S : l <= j
ResultsOfBatch(evs) ==
    SelectSeq(SubSeq(evs, LastStart(evs) + 1, Len(evs)), LAMBDA e : e.type = "tool_result")
MessagesOfBatch(msgs) ==
    SubSeq(msgs, PrecedingAI(msgs, Len(msgs) + 1) + 1, Len(msgs))

\* The positions of the calls of a batch whose tool is registered, in order.
RECURSIVE RegisteredPositions(_, _)
RegisteredPositions(tcs, k) ==
    IF k > Len(tcs) THEN <<>>
    ELSE (IF tcs[k].name \in Registered THEN <<k>> ELSE <<>>)
         \o RegisteredPositions(tcs, k + 1)

\* ------------------------------------------------------------------ C1
\* C1: in every execution of runStream and of the CLI run, whatever the
\* model answers, the language model is invoked at most 15 times.
C1_AtMost15Invocations == invocations <= 15

C1_Witness == invocations = 15 /\ Closed

\* ------------------------------------------------------------------ C2
\* C2: when every model invocation and tool execution settles and the
\* consumer keeps requesting records, runStream eventually closes its
\* stream, also for a model that answers every invocation with tool calls.
C2_StreamEventuallyCloses == (entry = "runStream") ~> Closed

C2_Witness ==
    /\ entry = "runStream" /\ Closed /\ Len(responses) = 15
    /\ \A k \in 1..Len(responses) : ~IsPlain(responses[k])

\* ------------------------------------------------------------------ C3
\* C3: every record sequence of runStream ends with exactly one terminal
\* record: when the stream has closed, the last record is a message or an
\* error record and no earlier record is terminal, the turn budget being
\* used up included.
C3_ExactlyOneTerminalEvent ==
    (entry = "runStream" /\ Closed) =>
        /\ Len(events) >= 1
        /\ IsTerminal(events[Len(events)])
        /\ \A k \in 1..(Len(events) - 1) : ~IsTerminal(events[k])

\* ------------------------------------------------------------------ C4
\* C4: when the model's first response carries no tool calls, runStream
\* yields exactly one record, a message with that response's content, and
\* then closes; the model is invoked once and no tool is executed.
C4_PlainFirstAnswer ==
    (entry = "runStream" /\ Len(responses) >= 1 /\ IsPlain(responses[1])) =>
        /\ events = << [type |-> "message", content |-> responses[1].content] >>
        /\ invocations = 1
        /\ execLog = <<>>
        /\ pc \in {"yieldMessage", "done"}

C4_Witness ==
    /\ entry = "runStream" /\ Closed
    /\ Len(responses) = 1 /\ responses[1].tool_calls_defined
    /\ responses[1].tool_calls = <<>>
    /\ Len(events) = 1

\* ------------------------------------------------------------------ C5
\* C5: when the model first returns a single call to a registered tool T
\* and then a plain answer A, the records of runStream are exactly
\* tool_start([T]), tool_result(T, output of T's handler), message(A), and
\* the stream then closes.
C5_ToolThenAnswer ==
    (/\ entry = "runStream"
     /\ Len(responses) >= 2
     /\ ~IsPlain(responses[1])
     /\ Len(responses[1].tool_calls) = 1
     /\ responses[1].tool_calls[1].name \in Registered
     /\ IsPlain(responses[2])) =>
        LET call == responses[1].tool_calls[1]
            output == func(call.name, call.args, [p \in Paths |-> Absent]).value
        IN  /\ events = << [type |-> "tool_start", tools |-> <<call.name>>],
                           [type |-> "tool_result", tool |-> call.name, result |-> output],
                           [type |-> "message", content |-> responses[2].content] >>
            /\ pc \in {"yieldMessage", "done"}
            /\ invocations = 2

C5_Witness ==
    /\ entry = "runStream" /\ Closed
    /\ Len(responses) = 2
    /\ Len(responses[1].tool_calls) = 1
    /\ responses[1].tool_calls[1].name = "read_file"
    /\ responses[2].content = "Found it"
    /\ Len(events) = 3


C7_SequentialInOrder ==
    /\ \A k \in 1..Len(execLog) :
         /\ execLog[k][1] = (IF k % 2 = 1 THEN "start" ELSE "end")
         /\ k % 2 = 0 => /\ execLog[k][2] = execLog[k - 1][2]
                         /\ execLog[k][3] = execLog[k - 1][3]
    /\ \A k, l \in 1..Len(execLog) :
         (k < l /\ execLog[k][1] = "start" /\ execLog[l][1] = "start"
                /\ execLog[k][2] = execLog[l][2]) => execLog[k][3] < execLog[l][3]
    /\ (Len(responses) >= 1 /\ ~IsPlain(responses[Len(responses)])) =>
         LET tcs == responses[Len(responses)].tool_calls
             msgs == MessagesOfBatch(currentMessages)
             res == ResultsOfBatch(events)
             reg == RegisteredPositions(tcs, 1)
         IN  /\ Len(msgs) <= Len(tcs)
             /\ \A k \in 1..Len(msgs) :
                  /\ msgs[k].type = "tool"
                  /\ tcs[k].id # Undefined => msgs[k].tool_call_id = tcs[k].id
                  /\ tcs[k].name \notin Registered => msgs[k].content = "Error: Tool not found"
             /\ entry = "runStream" =>
                  /\ Len(res) <= Len(reg)
                  /\ \A k \in 1..Len(res) :
                       /\ res[k].tool = tcs[reg[k]].name
                       /\ reg[k] <= Len(msgs) => msgs[reg[k]].content = res[k].result

\* Both calls of a batch of two registered tools have been executed.
C7_Witness ==
    /\ entry = "runStream" /\ pc = "loop"
    /\ Len(toolCalls) = 2
    /\ toolCalls[1].name = "write_file" /\ toolCalls[2].name = "read_file"
    /\ Len(execLog) = 4
    /\ Len(ResultsOfBatch(events)) = 2
    /\ events[Len(events)].result = "x"

\* ------------------------------------------------------------------ C8
\* C8: in every reachable transcript, every tool-result message carries an
\* id equal to the id of a tool call issued by the closest preceding
\* assistant message, also when the tool calls carry no id.
C8_ToolResultIdsMatch ==
    \A k \in 1..Len(currentMessages) :
        currentMessages[k].type = "tool" =>
            LET a == PrecedingAI(currentMessages, k) IN
            /\ a > 0
            /\ \E c \in 1..Len(currentMessages[a].tool_calls) :
                 currentMessages[a].tool_calls[c].id = currentMessages[k].tool_call_id

\* ------------------------------------------------------------------ C9
\* C9: whenever the loop invokes the model again or closes the stream, the
\* transcript holds exactly one tool-result message for each tool call
\* issued so far.
C9_OneResultPerToolCall ==
    (pc \in {"awaitModel", "done"}) =>
        \A a \in 1..Len(currentMessages) :
            currentMessages[a].type = "ai" =>
                ToolMessagesAfter(currentMessages, a) = Len(currentMessages[a].tool_calls)

\* ------------------------------------------------------------------ C10
\* C10: the transcript of one execution is append-only: every step leaves
\* the existing entries unchanged and in place, and the transcript passed to
\* a model invocation has the transcript of the previous invocation as a
\* strict prefix.
C10_TranscriptAppendOnly ==
    [][ /\ IsPrefix(currentMessages, currentMessages')
        /\ (invocations' = invocations + 1 /\ invocations >= 1) =>
              IsStrictPrefix(lastArg, lastArg') ]_vars

\* The model is invoked a third time, on a transcript that has grown by two
\* responses and their tool results.
C10_Witness ==
    /\ entry = "runStream" /\ pc = "awaitModel" /\ invocations = 3
    /\ Len(lastArg) >= 7
    /\ lastArg = currentMessages


\* ------------------------------------------------------------------ C11
\* C11: when a model invocation fails, runStream yields exactly one error
\* record carrying the failure description and ends the loop at once: the
\* model is not invoked again, no tool is executed afterwards, no further
\* record is yielded.
ModelFailed == invocations > Len(responses) /\ pc # "awaitModel"

ErrorEvents(evs) == SelectSeq(evs, LAMBDA e : e.type = "error")

C11_ModelFailureEndsLoop ==
    [][ (entry = "runStream" /\ ModelFailed') =>
          /\ pc' \in {"yieldError", "done"}
          /\ Len(events') >= 1
          /\ events'[Len(events')].type = "error"
          /\ events'[Len(events')].content \in {"fetch failed"}
          /\ Len(ErrorEvents(events')) = 1
          /\ ModelFailed =>
               /\ events' = events
               /\ invocations' = invocations
               /\ execLog' = execLog
               /\ currentMessages' = currentMessages
               /\ fs' = fs ]_vars

\* The second invocation failed after a tool batch, and the stream closed.
C11_Witness ==
    /\ entry = "runStream" /\ Closed /\ ModelFailed
    /\ invocations = 2 /\ Len(execLog) >= 2
    /\ events[Len(events)] = [type |-> "error", content |-> "fetch failed"]

\* ------------------------------------------------------------------ C12
\* C12: a tool handler never throws past its own boundary: for every
\* argument payload, a null payload and a missing field included, the
\* invocation resolves to a string, and the loop neither yields an error
\* record nor ends because of a tool failure.
C12_ToolHandlersNeverThrow ==
    /\ ~pending.thrown
    /\ \A k \in 1..Len(events) :
         events[k].type = "error" => events[k].content \in {"fetch failed"}

\* ------------------------------------------------------------------ C13
\* C13: the arguments of every tool call are validated against the tool's
\* schema before the handler is invoked: when validation fails the handler
\* is not invoked (no execution starts, the file system is untouched), a
\* tool-result message is appended for the call and no exception is raised.
C13_ValidatedBeforeInvocation ==
    [][ (/\ pc = "dispatch"
         /\ toolCalls[i].name \in Registered
         /\ ~schemaAccepts(toolCalls[i].name, toolCalls[i].args)) =>
          /\ execLog' = execLog
          /\ fs' = fs
          /\ ~pending'.thrown
          /\ Len(currentMessages') = Len(currentMessages) + 1
          /\ currentMessages'[Len(currentMessages')].type = "tool" ]_vars

\* ------------------------------------------------------------------ C14
\* C14: the loop suspends between records: every record is yielded by a
\* step that leaves the generator suspended, and while it is suspended no
\* model invocation and no tool execution takes place until the consumer
\* requests the next record; so at most one record is produced and not yet
\* consumed.
YieldStates == {"yieldStart", "yieldResult", "yieldMessage", "yieldError"}

C14_SuspendsBetweenEvents ==
    [][ entry = "runStream" =>
          /\ events' # events =>
               /\ Len(events') = Len(events) + 1
               /\ IsPrefix(events, events')
               /\ pc \notin YieldStates
               /\ pc' \in YieldStates
          /\ pc \in YieldStates =>
               /\ events' = events
               /\ invocations' = invocations
               /\ execLog' = execLog
               /\ fs' = fs ]_vars

\* Suspended on the first tool_result of a batch of two: the second call has
\* not been started.
C14_Witness ==
    /\ entry = "runStream" /\ pc = "yieldResult"
    /\ Len(toolCalls) = 2 /\ i = 1
    /\ Len(execLog) = 2
    /\ events[Len(events)].type = "tool_result"


\* ------------------------------------------------------------------ C17
\* C17: every index written by indexCodebase is uniform: either all of its
\* chunks carry a vector or none does, whatever the outcomes of the
\* embedding batches, some succeeding and another failing included.
Uniform(idx) ==
    \/ \A j \in 1..Len(idx) : idx[j].embedding # Undefined
    \/ \A j \in 1..Len(idx) : idx[j].embedding = Undefined

C17_WrittenIndexUniform == outputFile.exists => Uniform(outputFile.content)

\* ------------------------------------------------------------------ C16
\* C16: retrieveContext returns the empty context and raises nothing when
\* the index is empty, or no embedder is configured, or the chunks of the
\* index carry no vectors; runStream then goes on with a system message
\* holding the empty context, and does not end before the model is invoked.
Retrieved == pc \notin {"retrieve", "awaitEmbedQuery"}

NoVectors(idx) == \A j \in 1..Len(idx) : idx[j].embedding = NoVector
AllVectors(idx) == \A j \in 1..Len(idx) : idx[j].embedding # NoVector

C16_EmptyContextWithoutVectors ==
    (Retrieved /\ (Len(index) = 0 \/ embeddings = "null" \/ NoVectors(index))) =>
        /\ context = ""
        /\ queryEmbedding.state = "none"
        /\ entry = "runStream" =>
             /\ pc # "start" =>
                  /\ Len(currentMessages) >= 1
                  /\ currentMessages[1] = SystemMessage("")
             /\ Closed => invocations >= 1

\* runStream on an index of two chunks without vectors: the model was
\* invoked with the empty context.
C16_Witness ==
    /\ entry = "runStream" /\ embeddings = "configured"
    /\ Len(index) = 2 /\ NoVectors(index)
    /\ invocations >= 1 /\ lastArg[1] = SystemMessage("")
    /\ context = ""

\* ------------------------------------------------------------------ C18
\* C18: retrieveContext never scores an index partially: a chunk that has
\* no vector never appears in the returned context, that is, the context
\* is empty or lists only chunks that have a vector (the chunks of the
\* model differ in path and content, so a context names its chunks).
WithVector(idx) == { j \in 1..Len(idx) : idx[j].embedding # NoVector }

ContextsOver(idx, positions) ==
    UNION { { join([r \in 1..m |-> chunkText(idx[sel[r]])], "\n---\n")
              : sel \in { f \in [1..m -> positions] :
                            \A a, b \in 1..m : a # b => f[a] # f[b] } }
            : m \in 0..Len(idx) }

C18_NoPartialScoring ==
    Retrieved => context \in ContextsOver(index, WithVector(index))

\* ------------------------------------------------------------------ C19
\* C19: for an index of n chunks that all have vectors and a count k,
\* retrieveContext returns exactly min(k, n) chunks, they are the chunks of
\* highest cosine similarity to the query embedding, and they are listed in
\* order of descending similarity.
Min(a, b) == IF a < b THEN a ELSE b

\* The selections of m positions of idx that are the m best for the query
\* vector v, listed in descending score.
BestSelections(idx, v, m) ==
    LET n == Len(idx)
        sc(j) == cosineSimilarity(v, idx[j].embedding)
    IN  { sel \in [1..m -> 1..n] :
            /\ \A a, b \in 1..m : a < b =>
                 sel[a] # sel[b] /\ ~Greater(sc(sel[b]), sc(sel[a]))
            /\ \A j \in 1..n : (\A a \in 1..m : sel[a] # j) =>
                 \A a \in 1..m : ~Greater(sc(j), sc(sel[a])) }

\* retrieveContext has just returned to its caller.
JustRetrieved == pc \in {"start", "returned"}

C19_TopKDescending ==
    (JustRetrieved /\ queryEmbedding.state = "resolved" /\ AllVectors(index)) =>
        \E sel \in BestSelections(index, queryEmbedding.vector,
                                  Min(k_arg, Len(index))) :
           context = join([r \in 1..Min(k_arg, Len(index)) |->
                             chunkText(index[sel[r]])], "\n---\n")

\* Three chunks listed in ascending similarity to the query, k = 2: the
\* result is cut and reordered.
C19_Witness ==
    /\ pc = "returned" /\ k_arg = 2 /\ Len(index) = 3
    /\ queryEmbedding = [state |-> "resolved", vector |-> <<1, 2>>]
    /\ index[1].embedding = <<1, 0>>
    /\ index[2].embedding = <<0, 1>>
    /\ index[3].embedding = <<1, 1>>
    /\ context = join(<<chunkText(index[3]), chunkText(index[2])>>, "\n---\n")

\* ------------------------------------------------------------------ C20
\* C20: a failure of the query's embedding inside retrieveContext is caught
\* there and yields the empty context; it never aborts the turn: runStream
\* goes on to invoke the model, and an error record is yielded only when a
\* model invocation failed.
C20_EmbedFailureCaught ==
    queryEmbedding.state = "rejected" =>
        /\ context = ""
        /\ entry = "runStream" =>
             /\ pc # "start" =>
                  /\ Len(currentMessages) >= 1
                  /\ currentMessages[1] = SystemMessage("")
             /\ Closed => invocations >= 1
             /\ \A n \in 1..Len(events) :
                  events[n].type = "error" => invocations > Len(responses)

\* embedQuery rejected, and the stream closed with the model's answer.
C20_Witness ==
    /\ entry = "runStream" /\ queryEmbedding.state = "rejected"
    /\ Closed /\ invocations = 2
    /\ events[Len(events)].type = "message"

\* ------------------------------------------------------------------ C15
\* C15: concurrent runStream executions are independent: in every
\* interleaving of two executions, on one Agent or on two, whose tools touch
\* disjoint files, the transcript and the records of each execution are
\* those of the same execution run alone (a prefix of them while it runs,
\* all of them once it has returned).
RECURSIVE runAlone(_)
runAlone(s) == IF s.x.pc = "done" THEN s ELSE runAlone(step(s))

Alone(e) ==
    runAlone([x |-> Called(runs[e].query), msgs |-> <<>>,
              fs |-> [p \in Paths |-> Absent]])

C15_ConcurrentRunsIndependent ==
    \A e \in DOMAIN runs :
       LET a == Alone(e) IN
       /\ IsPrefix(runs[e].events, a.x.events)
       /\ IsPrefix(transcripts[e], a.msgs)
       /\ runs[e].pc = "done" =>
            /\ runs[e].events = a.x.events
            /\ transcripts[e] = a.msgs

\* Both executions, on the one Agent, have returned after writing and
\* reading their files in interleaved steps.
C15_Witness ==
    /\ agentOf = <<1, 1>>
    /\ runs[1].pc = "done" /\ runs[2].pc = "done"
    /\ runs[1].query = "create d/b.txt" /\ runs[2].query = "create e/c.txt"
    /\ Len(runs[1].events) = 5 /\ Len(runs[2].events) = 5
    /\ fs[F] = File("x") /\ fs[G] = File("x")

\* ------------------------------------------------------------------ C28
\* The records of evs are all tool_start or tool_result records.
OnlyToolEvents(evs) ==
    \A k \in 1..Len(evs) : evs[k].type \in {"tool_start", "tool_result"}

\* The model has answered each of the 15 invocations with tool calls.
AlwaysToolCalls ==
    /\ Len(responses) = maxTurns
    /\ \A k \in 1..Len(responses) : ~IsPlain(responses[k])

\* C28: when the model answers each of the 15 permitted invocations with
\* tool calls, runStream closes the stream after the 15th batch has been
\* dispatched, and the records are tool_start and tool_result records only:
\* neither a message nor an error record is yielded.
C28_ExhaustionYieldsNoTerminal ==
    (entry = "runStream" /\ AlwaysToolCalls) =>
        /\ OnlyToolEvents(events)
        /\ Closed => (invocations = maxTurns /\ turns = maxTurns)

\* ------------------------------------------------------------------ C30
\* The position of the j-th tool_start record of evs (0: there is none).
NthStart(evs, j) ==
    LET S == {p \in 1..Len(evs) :
                /\ evs[p].type = "tool_start"
                /\ Cardinality({q \in 1..p : evs[q].type = "tool_start"}) = j}
    IN  IF S = {} THEN 0 ELSE CHOOSE p \in S : TRUE

\* The position of the first tool_start or terminal record after position p
\* (0: there is none yet).
BatchEnd(evs, p) ==
    LET S == {q \in (p + 1)..Len(evs) : evs[q].type \in {"tool_start", "message", "error"}}
    IN  IF S = {} THEN 0 ELSE CHOOSE q \in S : \A l \in S : q <= l

\* C30: for every response with tool calls one tool_start record is yielded
\* before any tool of the batch is executed; it lists the names of all the
\* calls of the batch, registered or not, in the model's order; and the
\* number of tool_result records before the next tool_start or terminal
\* record is the number of calls of the batch whose name is registered.
C30_BatchEvents ==
    entry = "runStream" =>
      /\ \A k \in 1..Len(execLog) : NthStart(events, execLog[k][2]) # 0
      /\ \A j \in 1..Len(responses) :
           ~IsPlain(responses[j]) =>
             LET tcs == responses[j].tool_calls
                 p == NthStart(events, j)
                 q == BatchEnd(events, p)
             IN  /\ p # 0
                 /\ NthStart(events, j + 1) \in {0} \cup {l \in 1..Len(events) : l > p}
                 /\ events[p].tools = [k \in 1..Len(tcs) |-> tcs[k].name]
                 /\ q # 0 =>
                      Len(SelectSeq(SubSeq(events, p + 1, q - 1),
                                    LAMBDA e : e.type = "tool_result"))
                        = Len(RegisteredPositions(tcs, 1))

\* ------------------------------------------------------------------ C29
\* C29: within one execution of runStream retrieval completes before the
\* first model invocation; the transcript passed to the first invocation is
\* exactly the system message with the retrieved context embedded, then the
\* prior transcript unchanged and in its order, then the human message with
\* the query; and the system message stays the first entry of the transcript
\* in every later state.
C29_InitialTranscript ==
    entry = "runStream" =>
        /\ invocations >= 1 => Retrieved
        /\ invocations = 1 =>
             \E query \in Queries :
                 lastArg = <<SystemMessage(context)>> \o messageHistory
                             \o <<HumanMessage(query)>>
        /\ (Retrieved /\ pc # "start") =>
             /\ Len(currentMessages) >= 2 + Len(messageHistory)
             /\ currentMessages[1] = SystemMessage(context)

\* The model is invoked for the second time in an execution that was given a
\* prior transcript and retrieved a non-empty context.
C29_Witness ==
    /\ entry = "runStream" /\ pc = "awaitModel" /\ invocations = 2
    /\ messageHistory # <<>>
    /\ context # ""
    /\ currentMessages[1] = SystemMessage(context)
    /\ currentMessages[2] = messageHistory[1]

\* ------------------------------------------------------------------ C23
\* C23: the index is read-only after construction: no step of
\* retrieveContext or of runStream changes the chunks of the index, their
\* content, their vectors or their order.
C23_IndexReadOnly == [][index' = index]_vars

\* A retrieval has ranked the second chunk of the index above the first one
\* and the model has been invoked with the resulting context.
C23_Witness ==
    /\ entry = "runStream" /\ invocations >= 1
    /\ queryEmbedding.state = "resolved"
    /\ Len(index) >= 2
    /\ AllVectors(index)
    /\ Greater(scoreOf(index[2], queryEmbedding.vector),
               scoreOf(index[1], queryEmbedding.vector))
    /\ context # ""

\* ------------------------------------------------------------------ C21
\* The index file exists and holds text that is not JSON, or JSON that is
\* not a list.
Malformed(file) ==
    file.exists /\ (JSONparse(file.text).thrown \/ JSONparse(file.text).kind # "list")

\* The configuration is one the factory accepts.
ConfigAccepted ==
    /\ ~createModel(provider).thrown
    /\ handler \in {"cli", "cli ready", "exited"} => OPENAI_API_KEY

\* C21: a malformed index file never crashes construction, and the agent
\* then behaves as with an empty index: retrieveContext returns the empty
\* string and runStream goes on to invoke the model; for text that is not
\* JSON and for JSON that is not a list (null, an object, a number).
C21_MalformedIndexAsEmpty ==
    (Malformed(indexFile) /\ ConfigAccepted) =>
        /\ handler \notin {"boot", "cli"} =>
             /\ currentAgent = "constructed"
             /\ handler \notin {"rejected", "exited"}
        /\ context = ""
        /\ pc # "thrown"
        /\ queryEmbedding = NotEmbedded
        /\ (entry = "runStream" /\ handler = "ended") => invocations >= 1

\* ------------------------------------------------------------------ C22
\* No agent exists and no loop has been started on one.
NoAgent ==
    /\ currentAgent = "null"
    /\ entry = "none" /\ pc = "idle"
    /\ invocations = 0 /\ events = <<>> /\ written = <<>>

EventTypes == {"tool_start", "tool_result", "message", "error"}

\* C25: every record delivered to the caller of a chat turn is terminated by
\* a newline, is one JSON object of its own, and has a type among
\* tool_start, tool_result, message and error: every record runStream
\* yields and every record /api/chat writes, the record written when the
\* stream itself raises included.
C25_RecordsNewlineTerminated ==
    /\ \A k \in 1..Len(events) :
         yielded(events[k]).newline /\ events[k].type \in EventTypes
    /\ \A k \in 1..Len(written) :
         /\ written[k].newline
         /\ written[k].body.type \in EventTypes

\* ------------------------------------------------------------------ C24
\* The invocation at position k of the log is write_file(p, c) on a path
\* whose parent directory did not exist.
WritesUnderMissingDir(k) ==
    /\ toolLog[k].name = "write_file"
    /\ toolLog[k].args.content # Undefined
    /\ toolLog[k].parentBefore = "absent"

\* No write_file on path p between the positions k and l of the log.
NoWriterBetween(p, k, l) ==
    \A j \in (k + 1)..(l - 1) :
        ~(toolLog[j].name = "write_file" /\ toolLog[j].args.path = p)

\* C24: write_file(p, c) on a path whose parent directory does not exist
\* creates the directory and returns the success string, and a following
\* read_file(p), with no other writer of p in between, returns exactly c.
C24_WriteThenRead ==
    \A k \in 1..Len(toolLog) :
        WritesUnderMissingDir(k) =>
            /\ ~toolLog[k].thrown
            /\ toolLog[k].value = "Successfully wrote to " \o toolLog[k].args.path
            /\ toolLog[k].parentAfter = "dir"
            /\ \A l \in (k + 1)..Len(toolLog) :
                 (/\ toolLog[l].name = "read_file"
                  /\ toolLog[l].args.path = toolLog[k].args.path
                  /\ NoWriterBetween(toolLog[k].args.path, k, l)) =>
                      /\ ~toolLog[l].thrown
                      /\ toolLog[l].value = toolLog[k].args.content

\* "y" was written under the missing directory d, another file was written,
\* and d/b.txt was then read back.
C24_Witness ==
    /\ Len(toolLog) = 3
    /\ WritesUnderMissingDir(1)
    /\ toolLog[1].args = [path |-> F, content |-> "y"]
    /\ toolLog[2].name = "write_file" /\ toolLog[2].args.path = G
    /\ toolLog[3].name = "read_file" /\ toolLog[3].args.path = F
    /\ toolLog[3].value = "y"
    /\ fs[D] = Dir

\* ------------------------------------------------------------------ C26
IsZero(v) == \A k \in 1..Len(v) : v[k] = 0

\* C26: cosineSimilarity(A, B) is 0 whenever A or B is the zero vector, for
\* all vectors of equal length, and no division by zero occurs.
C26_ZeroVectorGivesZero ==
    similarity.done =>
        /\ similarity.ab.den # 0 /\ similarity.ba.den # 0
        /\ (IsZero(vecA) \/ IsZero(vecB)) =>
             /\ similarity.ab.num = 0
             /\ similarity.ba.num = 0

\* The similarity of a non-zero vector and the zero vector has been computed.
C26_Witness ==
    /\ similarity.done
    /\ Len(vecA) = MaxDim
    /\ ~IsZero(vecA) /\ IsZero(vecB)
    /\ similarity.ab = Score(0, 1)

\* ------------------------------------------------------------------ C27
\* C27: cosineSimilarity is symmetric: for any two vectors A and B of equal
\* length cosineSimilarity(A, B) equals cosineSimilarity(B, A).
C27_Symmetric ==
    similarity.done => similarity.ab = similarity.ba

\* Two different vectors that are neither parallel nor orthogonal have been
\* compared.
C27_Witness ==
    /\ similarity.done
    /\ vecA # vecB
    /\ similarity.ab.num > 0
    /\ similarity.ab.num < similarity.ab.den

\* ------------------------------------------------------------------ C33
\* The execution has reached its end: runStream has yielded a message or an
\* error record; the CLI's run has received a plain answer or a failure.
Ended ==
    IF entry = "runStream"
    THEN \E k \in 1..Len(events) : IsTerminal(events[k])
    ELSE /\ entry = "run"
         /\ \/ ModelFailed
            \/ Len(responses) >= 1 /\ IsPlain(responses[Len(responses)])

\* C33: once runStream has yielded a message or an error record nothing else
\* happens in that execution: no further record is yielded, the model is not
\* invoked again, no tool is executed and the transcript does not change
\* (and likewise in the CLI's run after the final answer or a failure).
C33_NothingAfterTerminal ==
    [][ Ended =>
          /\ events' = events
          /\ invocations' = invocations
          /\ execLog' = execLog
          /\ currentMessages' = currentMessages
          /\ fs' = fs
          /\ pc' = "done" ]_vars

\* runStream has closed after a tool batch and a final message.
C33_Witness ==
    /\ entry = "runStream" /\ Closed
    /\ Len(events) >= 3
    /\ events[Len(events)].type = "message"
    /\ Len(execLog) >= 2

\* ------------------------------------------------------------------ C32
\* The directory dir is the root itself or lies in the root's tree.
InsideRoot(dir) == IsPrefix(DEFAULT_ROOT_DIR, dir)

\* C32: GET /api/files confines paths to the root directory: a directory
\* listing is returned only when the resolved path is the root itself or
\* lies inside the root's tree; every other request is answered with 403 and
\* lists nothing (a sibling directory whose name merely starts with the
\* root's name is outside the root).
C32_FilesConfinedToRoot ==
    filesResponse.status # 0 =>
        LET dir == resolve(DEFAULT_ROOT_DIR, rawPath) IN
        /\ filesResponse.status = 200 => InsideRoot(dir)
        /\ ~InsideRoot(dir) =>
             /\ filesResponse.status = 403
             /\ filesResponse.files = {}

\* ------------------------------------------------------------------ C37
\* Every chunk is non-empty, at most chunkSize long and a piece of the text.
ChunksWellFormed ==
    \A k \in 1..Len(splitChunks) :
        /\ Len(splitChunks[k].text) >= 1
        /\ Len(splitChunks[k].text) <= chunkSize
        /\ splitChunks[k].text =
             sliceText(text, splitChunks[k].start,
                       splitChunks[k].start + Len(splitChunks[k].text))

\* Every character position of the text lies in at least one chunk.
AllCovered ==
    \A p \in 0..(Len(text) - 1) :
        \E k \in 1..Len(splitChunks) :
            /\ splitChunks[k].start <= p
            /\ p < splitChunks[k].start + Len(splitChunks[k].text)

\* C37: splitText terminates for every text, every chunkSize >= 1 and every
\* chunkOverlap >= 0, chunkOverlap >= chunkSize included: the start index
\* strictly increases in every iteration, every chunk is non-empty and at
\* most chunkSize characters long, and every character position of the text
\* lies in at least one chunk.
C37_SplitTextTerminates ==
    /\ <>(splitPc = "returned")
    /\ [](ChunksWellFormed /\ (splitPc = "returned" => AllCovered))
    /\ [][ (splitPc = "loop" /\ splitPc' = "loop") => startIndex' > startIndex ]_vars

\* A text was split into more than two chunks by a splitter whose overlap is
\* not smaller than its chunk size.
C37_Witness ==
    /\ splitPc = "returned"
    /\ chunkOverlap >= chunkSize
    /\ chunkSize >= 2
    /\ Len(splitChunks) >= 3
    /\ AllCovered

-----------------------------------------------------------------------------
\* The UI's sendMessage (App.tsx): one message is sent and the records of the
\* response are read one by one.

MaxRecords == 3

RecordTypes == {"message", "tool_start", "tool_result", "error"}

\* The sequences of records one response can carry.
RecordSequences == UNION { [1..n -> RecordTypes] : n \in 0..MaxRecords }

UserMessage == [role |-> "user", content |-> "input", toolName |-> "", isStreaming |-> "undefined"]

\* const assistantMsg = { role: 'assistant', content: '', isStreaming: true }
assistantMsg == [role |-> "assistant", content |-> "", toolName |-> "", isStreaming |-> "true"]

ToolStartMessage ==
    [role |-> "tool", content |-> "Using tools", toolName |-> "System", isStreaming |-> "false"]

ToolResultMessage ==
    [role |-> "tool", content |-> "Tool result", toolName |-> "tool", isStreaming |-> "false"]

FailedMessage ==
    [role |-> "assistant", content |-> "Error: Failed to send message", toolName |-> "",
     isStreaming |-> "undefined"]

\* What one parsed line does to the message list: a message record extends the
\* last message when that is an assistant message without a tool name, a
\* tool_start record adds one tool message, a tool_result record adds a tool
\* message and an empty streaming assistant message, and any other record
\* (type error) changes nothing.
applyRecord(msgs, type) ==
    CASE type = "message" ->
            LET lastMsg == msgs[Len(msgs)]
            IN  IF lastMsg.role = "assistant" /\ lastMsg.toolName = ""
                THEN [msgs EXCEPT ![Len(msgs)].content = @ \o "c"]
                ELSE msgs
      [] type = "tool_start" -> Append(msgs, ToolStartMessage)
      [] type = "tool_result" -> Append(Append(msgs, ToolResultMessage), assistantMsg)
      [] OTHER -> msgs

\* After the read loop only the last message is marked as not streaming.
finishStream(msgs) == [msgs EXCEPT ![Len(msgs)].isStreaming = "false"]

UiInit ==
    /\ NoExecutions
    /\ IndexerIdle
    /\ NoIndex
    /\ AgentIdle
    /\ NoHistory
    /\ AgentConstructed
    /\ NoApplication
    /\ freeCalls = 0
    /\ FilesIdle
    /\ SplitIdle
    /\ SrvIdle
    /\ consuming = TRUE
    /\ messages = <<>>
    /\ isLoading = FALSE
    /\ incoming \in RecordSequences
    /\ uiPc = "idle"

\* sendMessage with a non-blank input while nothing is loading: the user
\* message is added, isLoading is set and the request is made.
SendMessage ==
    /\ uiPc = "idle"
    /\ ~isLoading
    /\ messages' = Append(messages, UserMessage)
    /\ isLoading' = TRUE
    /\ uiPc' = "fetch"
    /\ UNCHANGED <<mainVars, filesVars, splitVars, srvVars, consuming, incoming>>

\* fetch resolves: the streaming assistant message is added and the read loop
\* is entered.
FetchResolves ==
    /\ uiPc = "fetch"
    /\ messages' = Append(messages, assistantMsg)
    /\ uiPc' = "read"
    /\ UNCHANGED <<mainVars, filesVars, splitVars, srvVars, consuming, incoming, isLoading>>

\* fetch rejects: catch adds the failure message, finally resets isLoading.
FetchRejects ==
    /\ uiPc = "fetch"
    /\ messages' = Append(messages, FailedMessage)
    /\ isLoading' = FALSE
    /\ uiPc' = "finished"
    /\ UNCHANGED <<mainVars, filesVars, splitVars, srvVars, consuming, incoming>>

\* reader.read() resolves with one record.
ReadRecord ==
    /\ uiPc = "read"
    /\ incoming # <<>>
    /\ messages' = applyRecord(messages, Head(incoming))
    /\ incoming' = Tail(incoming)
    /\ UNCHANGED <<mainVars, filesVars, splitVars, srvVars, consuming, isLoading, uiPc>>

\* reader.read() resolves with done: the loop is left, the last message is
\* marked as not streaming, finally resets isLoading.
ReadDone ==
    /\ uiPc = "read"
    /\ incoming = <<>>
    /\ messages' = finishStream(messages)
    /\ isLoading' = FALSE
    /\ uiPc' = "finished"
    /\ UNCHANGED <<mainVars, filesVars, splitVars, srvVars, consuming, incoming>>

\* reader.read() rejects (the connection is lost): catch adds the failure
\* message, finally resets isLoading.
ReadRejects ==
    /\ uiPc = "read"
    /\ messages' = Append(messages, FailedMessage)
    /\ isLoading' = FALSE
    /\ uiPc' = "finished"
    /\ UNCHANGED <<mainVars, filesVars, splitVars, srvVars, consuming, incoming>>

UiNext ==
    \/ SendMessage
    \/ FetchResolves
    \/ FetchRejects
    \/ ReadRecord
    \/ ReadDone
    \/ ReadRejects

UiSpec == UiInit /\ [][UiNext]_vars

\* C36: once sendMessage has finished, isLoading is false and no message of the
\* list is still marked isStreaming, whatever records were received.
C36_NothingStreamingAfterSend ==
    uiPc = "finished" =>
        /\ isLoading = FALSE
        /\ \A n \in 1..Len(messages) : messages[n].isStreaming # "true"

-----------------------------------------------------------------------------
\* The server under POST /api/config and POST /api/index requests that arrive
\* before, during and after one chat.

MaxRequests == 2

\* The configurations posted: a supported provider and one that is no
\* LLMProvider.
PostedConfigs == {"ollama", "mistral"}

\* The config files the server may find when it starts.
ConfigFiles == {NoConfigFile} \cup {[exists |-> TRUE, provider |-> p] : p \in {"openai", "mistral"}}

\* "Load config if exists": the file's configuration, else the default.
loadConfig(file) == IF file.exists THEN file.provider ELSE "openai"

\* The index files indexCodebase writes: no chunk, or one embedded chunk.
WrittenIndexTexts == {"[]", OneChunkText}

\* The index files the server may find when it starts: none, one that
\* indexCodebase wrote, or one that holds the JSON value null.
ServerIndexFiles ==
    {NoIndexFile} \cup {[exists |-> TRUE, text |-> t] : t \in WrittenIndexTexts \cup {"null"}}

ServerInit ==
    /\ AgentIdle
    /\ NoExecutions
    /\ NoIndex
    /\ NoHistory
    /\ NoApplication
    /\ FilesIdle
    /\ SplitIdle
    /\ UiIdle
    /\ consuming = TRUE
    /\ freeCalls = 0
    /\ ipc = "idle"
    /\ chunks = <<>>
    /\ embeddings_arg = Undefined
    /\ batch_i = 0
    /\ outputFile = NoFile
    /\ handler = "boot"
    /\ OPENAI_API_KEY = FALSE
    /\ indexFile \in ServerIndexFiles
    /\ indexKind = "list"
    /\ configFile \in ConfigFiles
    /\ provider = loadConfig(configFile)
    /\ agentConfig = provider
    /\ agentIndex = NoAgentIndex
    /\ thisConfig = provider
    /\ lastResponse = NoResponse
    /\ indexing = FALSE
    /\ requests = 0
    /\ currentAgent = "null"
    /\ written = <<>>

\* The server accepts requests.
Serving == handler \in {"listening", "streaming", "ended", "refused", "rejected"}

\* Mutant of PostConfig: the agent object is changed in place, so that a
\* running stream sees the new index and configuration.
PostConfig_InPlace(p) ==
    /\ Serving
    /\ requests < MaxRequests
    /\ requests' = requests + 1
    /\ provider' = p
    /\ configFile' = [exists |-> TRUE, provider |-> p]
    /\ LET a == newAgent(indexFile, p) IN
       IF a.thrown
       THEN /\ lastResponse' = [request |-> "config", status |-> 500]
            /\ UNCHANGED <<currentAgent, agentConfig, agentIndex, index, indexKind,
                           thisConfig>>
       ELSE /\ currentAgent' = "constructed"
            /\ agentConfig' = p
            /\ agentIndex' = a.index
            /\ index' = a.index.items
            /\ indexKind' = a.index.kind
            /\ thisConfig' = p
            /\ lastResponse' = [request |-> "config", status |-> 200]
    /\ UNCHANGED <<agentVars, indexerVars, embeddings, k_arg, queryEmbedding, context,
                   freeCalls, concurrentVars>>
    /\ UNCHANGED <<filesVars, splitVars, uiVars, consuming, indexing,
                   messageHistory, indexFile, handler, written, vecA, vecB,
                   similarity, toolLog>>

\* POST /api/config: the body becomes currentConfig and is written to the
\* config file, then the agent is constructed from it and replaces
\* currentAgent; an error of the constructor is answered with status 500.
PostConfig(p) ==
    /\ Serving
    /\ requests < MaxRequests
    /\ requests' = requests + 1
    /\ provider' = p
    /\ configFile' = [exists |-> TRUE, provider |-> p]
    /\ LET a == newAgent(indexFile, p) IN
       IF a.thrown
       THEN /\ lastResponse' = [request |-> "config", status |-> 500]
            /\ UNCHANGED <<currentAgent, agentConfig, agentIndex>>
       ELSE /\ currentAgent' = "constructed"
            /\ agentConfig' = p
            /\ agentIndex' = a.index
            /\ lastResponse' = [request |-> "config", status |-> 200]
    /\ UNCHANGED <<agentVars, indexerVars, retrievalVars, freeCalls, concurrentVars>>
    /\ UNCHANGED <<filesVars, splitVars, uiVars, consuming, thisConfig, indexing,
                   messageHistory, indexFile, indexKind, handler, written, vecA, vecB,
                   similarity, toolLog>>

\* POST /api/index up to `await indexCodebase(...)`: the embedder is created
\* from currentConfig (no provider makes createEmbeddings throw).
PostIndexBegin ==
    /\ Serving
    /\ ~indexing
    /\ requests < MaxRequests
    /\ requests' = requests + 1
    /\ indexing' = TRUE
    /\ UNCHANGED <<agentVars, indexerVars, retrievalVars, freeCalls, concurrentVars>>
    /\ UNCHANGED <<filesVars, splitVars, uiVars, consuming, configFile, agentConfig,
                   agentIndex, thisConfig, lastResponse,
                   messageHistory, indexFile, indexKind, provider, currentAgent,
                   handler, written, vecA, vecB, similarity, toolLog>>

\* indexCodebase has written the index file: the agent is constructed from
\* the file and the configuration currentConfig holds now, and replaces
\* currentAgent; an error of the constructor is answered with status 500.
PostIndexResolves ==
    /\ indexing
    /\ indexing' = FALSE
    /\ \E t \in WrittenIndexTexts :
         /\ indexFile' = [exists |-> TRUE, text |-> t]
         /\ LET a == newAgent(indexFile', provider) IN
            IF a.thrown
            THEN /\ lastResponse' = [request |-> "index", status |-> 500]
                 /\ UNCHANGED <<currentAgent, agentConfig, agentIndex>>
            ELSE /\ currentAgent' = "constructed"
                 /\ agentConfig' = provider
                 /\ agentIndex' = a.index
                 /\ lastResponse' = [request |-> "index", status |-> 200]
    /\ UNCHANGED <<agentVars, indexerVars, retrievalVars, freeCalls, concurrentVars>>
    /\ UNCHANGED <<filesVars, splitVars, uiVars, consuming, configFile, thisConfig,
                   requests, messageHistory, indexKind, provider, handler, written,
                   vecA, vecB, similarity, toolLog>>

\* indexCodebase rejects (an embedding request failed): status 500, nothing
\* was written.
PostIndexRejects ==
    /\ indexing
    /\ indexing' = FALSE
    /\ lastResponse' = [request |-> "index", status |-> 500]
    /\ UNCHANGED <<agentVars, indexerVars, retrievalVars, freeCalls, concurrentVars>>
    /\ UNCHANGED <<filesVars, splitVars, uiVars, consuming, configFile, agentConfig,
                   agentIndex, thisConfig, requests,
                   messageHistory, indexFile, indexKind, provider, currentAgent,
                   handler, written, vecA, vecB, similarity, toolLog>>

PostConfigRequest == \E p \in PostedConfigs : PostConfig(p)

ServerNext ==
    \/ Startup
    \/ PostConfigRequest
    \/ PostIndexBegin
    \/ PostIndexResolves
    \/ PostIndexRejects
    \/ ChatRequest
    \/ Retrieve
    \/ EmbedQueryResolves
    \/ EmbedQueryRejects
    \/ Start
    \/ InvokeModel
    \/ LoopExit
    \/ ModelResponds
    \/ ModelFails
    \/ Dispatch
    \/ ToolSettles
    \/ ChatWrite
    \/ ChatResumeAfterToolStart
    \/ ChatResumeAfterToolResult
    \/ ChatResumeAfterTerminal
    \/ ChatEnd
    \/ ChatCatch

ServerSpec == ServerInit /\ [][ServerNext]_vars

\* The server's state is consistent: an agent that exists was constructed from
\* the configuration that currentConfig and the config file hold.
ServerConsistent ==
    currentAgent # "null" =>
        /\ agentConfig = provider
        /\ configFile.exists => configFile.provider = provider

\* The step is the answer 500 to a POST /api/config.
ConfigRefused ==
    /\ requests' = requests + 1
    /\ lastResponse' = [request |-> "config", status |-> 500]

\* C34: after any sequence of config, index and chat requests a non-null
\* currentAgent was constructed from the configuration that currentConfig and
\* the config file hold, and a POST /api/config answered with status 500
\* leaves currentConfig, the config file and currentAgent as they were.
C34_ServerStateConsistent ==
    /\ []ServerConsistent
    /\ [][ ConfigRefused =>
             /\ provider' = provider
             /\ configFile' = configFile
             /\ currentAgent' = currentAgent
             /\ agentConfig' = agentConfig
             /\ agentIndex' = agentIndex ]_vars

\* The agent whose runStream is running: its index, embedder and
\* configuration (from which its model was created).
StreamAgent == <<index, indexKind, embeddings, thisConfig>>

\* The step replaces currentAgent.
Replaced == <<agentConfig, agentIndex>>' # <<agentConfig, agentIndex>>

\* C35: a chat stream in flight keeps the agent, index and model it started
\* with when a concurrent POST /api/config or POST /api/index replaces
\* currentAgent, and a chat request that arrives afterwards uses the agent
\* that currentAgent names then.
C35_StreamKeepsItsAgent ==
    [][ /\ (handler = "streaming" /\ handler' = "streaming") =>
              StreamAgent' = StreamAgent
        /\ (handler = "listening" /\ handler' = "streaming") =>
              /\ index' = agentIndex'.items
              /\ indexKind' = agentIndex'.kind
              /\ thisConfig' = agentConfig' ]_vars

\* A stream has closed after currentAgent was replaced by an agent with
\* another configuration and another index.
C35_Witness ==
    /\ handler = "ended"
    /\ currentAgent = "constructed"
    /\ thisConfig # agentConfig
    /\ index # agentIndex.items
    /\ Len(written) >= 3

-----------------------------------------------------------------------------
\* runStream with a consumer that may stop requesting records.  The
\* generator runs only between a request for the next record and its next
\* yield.

AbandonInit ==
    /\ Init
    /\ entry = "runStream"

\* The caller stops consuming: it requests no further record.
ConsumerStops ==
    /\ consuming
    /\ consuming' = FALSE
    /\ UNCHANGED <<mainVars, filesVars, splitVars, uiVars, srvVars>>

\* The requests for the next record of a consumer that still consumes.
RequestAfterToolStart ==
    /\ consuming
    /\ ResumeAfterToolStart

RequestAfterToolResult ==
    /\ consuming
    /\ ResumeAfterToolResult

RequestAfterTerminal ==
    /\ consuming
    /\ ResumeAfterTerminal

AbandonNext ==
    \/ Start
    \/ InvokeModel
    \/ LoopExit
    \/ ModelResponds
    \/ ModelFails
    \/ Dispatch
    \/ ToolSettles
    \/ RequestAfterToolStart
    \/ RequestAfterToolResult
    \/ RequestAfterTerminal
    \/ ConsumerStops

\* Every model invocation and tool execution settles, and the generator runs
\* whenever it is not suspended; the consumer requests the next record or
\* stops.
AbandonSpec == AbandonInit /\ [][AbandonNext]_vars /\ WF_vars(AbandonNext)

\* A model or tool call is in flight.
InFlight == pc \in {"awaitModel", "awaitTool"}

\* The batch of turn t has been worked through (the for loop over its calls
\* has ended), or the loop has failed.
BatchExecuted(t) ==
    \/ turns >= t
    \/ events # <<>> /\ events[Len(events)].type = "error"

\* C31: when the caller stops consuming, the tool calls of the batch
\* announced by the last delivered tool_start record are still executed, and
\* the model or tool call in flight finishes, although no further record is
\* requested.
C31_WorkGoesOnWithoutConsumer ==
    /\ \A t \in 1..maxTurns :
         (~consuming /\ pc = "yieldStart" /\ invocations = t) ~> BatchExecuted(t)
    /\ (~consuming /\ InFlight) ~> ~InFlight

====
